---- MODULE Spec2Model ----
(***************************************************************************)
(* A model of the WorldEngine rotor machine: the wheels (Rotor,            *)
(* Reflector), the Keyboard and Plugboard, the Inop engine with its        *)
(* stepping policies and signal path, the MachineContext that builds and   *)
(* rewinds an engine, and the CipherPipeline with marker framing and       *)
(* cover padding.  Python strings are sequences of one-symbol strings,     *)
(* Python indices are 0-based and kept 0-based here (At, Index).           *)
(***************************************************************************)
EXTENDS Integers, Sequences, FiniteSets, TLC

VARIABLES
    ctx,      \* the MachineContext of the session (its engine included)
    call,     \* the last call made and what it returned
    trail,    \* rotor positions at the last rewind and after each keypress since
    wheel,    \* a wheel under construction / use on its own
    pipe      \* the CipherPipeline's last encrypt / decrypt

vars == <<ctx, call, trail, wheel, pipe>>

(***************************************************************************)
(* Bounds of the model.                                                    *)
(***************************************************************************)
\* longest message given to the pipeline
MaxMsgLen == 2
\* longest marker the pipeline makes
MaxMarkerLen == 1
\* longest marker given to the padding functions on their own
MaxPadMarkerLen == 2
\* largest base_noise
MaxNoise == 1
\* largest block
MaxBlock == 2
\* keypresses explored from one rewind point
MaxPresses == 101
\* keypresses explored on the small test engines
MaxSmallPresses == 9
\* longest pair list given to the Plugboard constructor
MaxPairs == 2
\* longest ring-settings list and master key given to the Inop constructor
MaxKeyLen == 4
\* operations followed on two sessions side by side, once they are built
MaxSharedOps == 3
\* longest message given to pad_message when its cover is counted
MaxPadLen == 181

(***************************************************************************)
(* Python helpers.                                                         *)
(***************************************************************************)
\* s[i] with a 0-based index
At(s, i) == s[i + 1]

\* str.find / list.index: the first 0-based index of c in s, -1 when absent
Index(s, c) ==
    IF \E i \in 1..Len(s) : s[i] = c
    THEN (CHOOSE i \in 1..Len(s) : s[i] = c /\ \A j \in 1..(i - 1) : s[j] # c) - 1
    ELSE -1

\* c in s
In(c, s) == \E i \in 1..Len(s) : s[i] = c

\* set(s)
SetOf(s) == {s[i] : i \in 1..Len(s)}

\* how often c occurs in s
Count(s, c) == Cardinality({i \in 1..Len(s) : s[i] = c})

\* sorted(a) == sorted(b): the same multiset of symbols
SameSorted(a, b) ==
    /\ Len(a) = Len(b)
    /\ \A c \in SetOf(a) \cup SetOf(b) : Count(a, c) = Count(b, c)

\* s[::-1]
Reverse(s) == [i \in 1..Len(s) |-> s[Len(s) + 1 - i]]

\* a raised ValueError
ValueError(msg) == [kind |-> "ValueError", msg |-> msg]

IsError(x) == x.kind = "ValueError"

\* the value of a call that returns nothing
None == [kind |-> "None"]

(***************************************************************************)
(* Alphabets.                                                              *)
(***************************************************************************)
Alpha26 ==
    <<"A","B","C","D","E","F","G","H","I","J","K","L","M","N","O","P","Q","R","S","T","U","V","W","X","Y","Z">>
Alpha38 ==
    Alpha26 \o <<"0","1","2","3","4","5","6","7","8","9","#","/">>
\* a custom four-symbol alphabet, as the wheel generator accepts
Alpha4 ==
    <<"A","B","C","D">>

(***************************************************************************)
(* Rotor.                                                                  *)
(***************************************************************************)
\* a Rotor.__init__ that compares the lengths of wiring and alphabet only
RotorLengthOnly(wiring, notches, alphabet) ==
    IF Len(wiring) # Len(alphabet)
    THEN ValueError("wiring must be a permutation of alphabet")
    ELSE [kind |-> "Rotor",
          alphabet |-> alphabet,
          size |-> Len(alphabet),
          fwd |-> [i \in 1..Len(wiring) |-> Index(alphabet, wiring[i])],
          rev |-> [i \in 1..Len(alphabet) |-> Index(wiring, alphabet[i])],
          notches |-> SetOf(notches),
          position |-> 0,
          ring_setting |-> 0]

\* Rotor.__init__
Rotor(wiring, notches, alphabet) ==
    IF ~SameSorted(wiring, alphabet)
    THEN ValueError("wiring must be a permutation of alphabet")
    ELSE [kind |-> "Rotor",
          alphabet |-> alphabet,
          size |-> Len(alphabet),
          fwd |-> [i \in 1..Len(wiring) |-> Index(alphabet, wiring[i])],
          rev |-> [i \in 1..Len(alphabet) |-> Index(wiring, alphabet[i])],
          notches |-> SetOf(notches),
          position |-> 0,
          ring_setting |-> 0]

\* a set_ring that stores ring - 1 as it comes
SetRingNoWrap(r, ring) == [r EXCEPT !.ring_setting = ring - 1]

\* Rotor.set_ring
SetRing(r, ring) == [r EXCEPT !.ring_setting = (ring - 1) % r.size]

\* Rotor.set_notches: the rotor with its new notch set, or the error
SetNotches(r, notches) ==
    IF ~(SetOf(notches) \subseteq SetOf(r.alphabet))
    THEN ValueError("Notch characters must be in the alphabet")
    ELSE [r EXCEPT !.notches = SetOf(notches)]

\* a _rotate that drags the ring setting along with the position
RotateWithRing(r, steps) ==
    [r EXCEPT !.position = (r.position + steps) % r.size,
              !.ring_setting = (r.ring_setting + steps) % r.size]

\* Rotor._rotate
Rotate(r, steps) == [r EXCEPT !.position = (r.position + steps) % r.size]

\* the notch test at the end of Rotor.step, on the rotor already rotated
NotchHit(r) == At(r.alphabet, r.position) \in r.notches

\* Rotor.step with the notch read before the rotor has moved
StepHitBefore(r) ==
    [rotor |-> Rotate(r, 1), hit |-> NotchHit(r)]

\* Rotor.step: the rotor advanced by one, and whether it landed on a notch
Step(r) ==
    LET moved == Rotate(r, 1)
    IN  [rotor |-> moved, hit |-> NotchHit(moved)]

\* Rotor.forward that forgets to turn the contact back by position and ring
ForwardRaw(r, sig) ==
    At(r.fwd, (sig + r.position - r.ring_setting) % r.size)

\* Rotor.forward
Forward(r, sig) ==
    LET shift == (sig + r.position - r.ring_setting) % r.size
        mapped == At(r.fwd, shift)
    IN  (mapped - r.position + r.ring_setting) % r.size

\* Rotor.backward that looks the contact up in the forward table
BackwardByFwd(r, sig) ==
    LET shift == (sig + r.position - r.ring_setting) % r.size
        mapped == At(r.fwd, shift)
    IN  (mapped - r.position + r.ring_setting) % r.size

\* Rotor.backward
Backward(r, sig) ==
    LET shift == (sig + r.position - r.ring_setting) % r.size
        mapped == At(r.rev, shift)
    IN  (mapped - r.position + r.ring_setting) % r.size

(***************************************************************************)
(* Reflector.                                                              *)
(***************************************************************************)
\* the pairing loop without its test for a symbol wired to itself
BadPairingSelfAllowed(wiring, alphabet) ==
    \E i \in 0..(Len(wiring) - 1) :
        LET j == Index(alphabet, At(wiring, i))
        IN  \/ j = -1
            \/ At(wiring, j) # At(alphabet, i)

\* the loop of Reflector.__init__: some index breaks the pairing.  A wiring
\* symbol outside the alphabet makes alphabet.index raise, a ValueError too.
BadPairing(wiring, alphabet) ==
    \E i \in 0..(Len(wiring) - 1) :
        LET j == Index(alphabet, At(wiring, i))
        IN  \/ j = -1
            \/ At(wiring, j) # At(alphabet, i)
            \/ i = j

\* Reflector.__init__
Reflector(wiring, alphabet) ==
    IF Len(wiring) # Len(alphabet)
    THEN ValueError("Reflector wiring length must match alphabet length")
    ELSE IF BadPairing(wiring, alphabet)
    THEN ValueError("Reflector wiring must be an involution with no fixed points")
    ELSE [kind |-> "Reflector",
          alphabet |-> alphabet,
          size |-> Len(alphabet),
          map |-> [i \in 1..Len(wiring) |-> Index(alphabet, wiring[i])],
          position |-> 0]

\* Reflector.rotate_to_letter
RotateToLetter(f, L) ==
    IF ~In(L, f.alphabet)
    THEN ValueError("Reflector cannot rotate to letter: not in alphabet")
    ELSE [f EXCEPT !.position = Index(f.alphabet, L)]

\* a reflect that turns the contact by the position on the way in only
ReflectNoTurnBack(f, sig) == At(f.map, (sig + f.position) % f.size)

\* Reflector.reflect
Reflect(f, sig) ==
    LET adjusted == (sig + f.position) % f.size
        mapped == At(f.map, adjusted)
    IN  (mapped - f.position) % f.size

(***************************************************************************)
(* Keyboard and Plugboard.                                                 *)
(***************************************************************************)
Ok(v) == [kind |-> "ok", value |-> v]

\* Keyboard.__init__: the dict comprehension keeps the last index of a symbol
Keyboard(alphabet) ==
    [kind |-> "Keyboard",
     alphabet |-> alphabet,
     alpha_to_index |->
        [ch \in SetOf(alphabet) |->
            (CHOOSE i \in 1..Len(alphabet) :
                alphabet[i] = ch /\ \A j \in (i + 1)..Len(alphabet) : alphabet[j] # ch) - 1]]

\* Keyboard.forward
KbForward(kb, letter) ==
    IF letter \in DOMAIN kb.alpha_to_index
    THEN Ok(kb.alpha_to_index[letter])
    ELSE ValueError("Invalid character for current alphabet.")

\* a Keyboard.backward without the lower bound: a negative signal indexes
\* the alphabet from its end, as Python strings do
KbBackwardWrap(kb, signal) ==
    IF ~(signal < Len(kb.alphabet))
    THEN ValueError("Signal out of range")
    ELSE Ok(At(kb.alphabet, signal % Len(kb.alphabet)))

\* Keyboard.backward
KbBackward(kb, signal) ==
    IF ~(0 <= signal /\ signal < Len(kb.alphabet))
    THEN ValueError("Signal out of range")
    ELSE Ok(At(kb.alphabet, signal))

\* the loop of Plugboard.__init__ from pair k on
RECURSIVE PlugPairs(_, _, _, _, _)
PlugPairs(pairs, k, mapping, used, alphabet) ==
    IF k > Len(pairs)
    THEN [kind |-> "Plugboard", alphabet |-> alphabet, mapping |-> mapping]
    ELSE LET raw == pairs[k]
         IN  IF Len(raw) # 2
             THEN ValueError("Pair must be exactly 2 symbols")
             ELSE LET a == raw[1]
                      b == raw[2]
                  IN  IF a = b
                      THEN ValueError("Plugboard cannot map a symbol to itself")
                      ELSE IF a \in used \/ b \in used
                      THEN ValueError("Character already used in plugboard")
                      ELSE IF ~In(a, alphabet) \/ ~In(b, alphabet)
                      THEN ValueError("Symbol not in alphabet")
                      ELSE PlugPairs(pairs, k + 1,
                                     [mapping EXCEPT ![a] = b, ![b] = a],
                                     used \cup {a, b}, alphabet)

\* a Plugboard.__init__ whose loop stops after the first pair
PlugboardFirstPair(pairs, alphabet) ==
    PlugPairs(IF pairs = <<>> THEN pairs ELSE <<pairs[1]>>, 1,
              [ch \in SetOf(alphabet) |-> ch], {}, alphabet)

\* Plugboard.__init__
Plugboard(pairs, alphabet) ==
    PlugPairs(pairs, 1, [ch \in SetOf(alphabet) |-> ch], {}, alphabet)

\* a _map that never consults the mapping
PlugMapUnplugged(pb, signal) ==
    Index(pb.alphabet, At(pb.alphabet, signal))

\* Plugboard._map, which is both Plugboard.forward and Plugboard.backward
PlugMap(pb, signal) ==
    LET letter == At(pb.alphabet, signal)
        mapped == pb.mapping[letter]
    IN  Index(pb.alphabet, mapped)

\* forward = _map
PlugForward(pb, signal) == PlugMap(pb, signal)

\* backward = _map
PlugBackward(pb, signal) == PlugMap(pb, signal)

(***************************************************************************)
(* Inop: the engine.                                                       *)
(***************************************************************************)
\* Inop.set_rings: zip stops at the shorter of the two
SetRings(rotors, rings) ==
    [i \in 1..Len(rotors) |->
        IF i <= Len(rings) THEN SetRing(rotors[i], rings[i]) ELSE rotors[i]]

\* Inop.set_key: each rotor to the index of its key letter
SetKey(rotors, key_part) ==
    [i \in 1..Len(rotors) |->
        IF i <= Len(key_part)
        THEN [rotors[i] EXCEPT !.position = Index(rotors[i].alphabet, key_part[i])]
        ELSE rotors[i]]

\* master_key[:-1]
KeyPart(master_key) == SubSeq(master_key, 1, Len(master_key) - 1)

\* master_key[-1]
KeyLast(master_key) == master_key[Len(master_key)]

\* alphabet.index / rotate_to_letter raise on a key letter outside the alphabet
KeyFits(rotors, reflector, master_key) ==
    /\ \A i \in 1..Len(rotors) :
          i <= Len(master_key) - 1 => In(master_key[i], rotors[i].alphabet)
    /\ In(KeyLast(master_key), reflector.alphabet)

\* Inop.__init__
Inop(kb, pb, rotors, reflector, ring_settings, master_key) ==
    IF Len(ring_settings) # Len(rotors)
    THEN ValueError("Incorrect ring settings length")
    ELSE IF Len(master_key) # Len(rotors) + 1
    THEN ValueError("Incorrect master key length")
    ELSE IF ~KeyFits(rotors, reflector, master_key)
    THEN ValueError("key letter not in alphabet")
    ELSE [kind |-> "Inop",
          kb |-> kb,
          pb |-> pb,
          rotors |-> SetKey(SetRings(rotors, ring_settings), KeyPart(master_key)),
          reflector |-> RotateToLetter(reflector, KeyLast(master_key))]

\* a three-rotor step without the double step: the middle rotor moves only
\* on the right rotor's notch, the left only when both sit on their notches
StepHistoricNoDouble(rotors) ==
    LET left == rotors[1]
        middle == rotors[2]
        right == rotors[3]
        mid_on == At(left.alphabet, middle.position) \in middle.notches
        right_on == At(left.alphabet, right.position) \in right.notches
    IN  <<IF mid_on /\ right_on THEN Step(left).rotor ELSE left,
          IF right_on THEN Step(middle).rotor ELSE middle,
          Step(right).rotor>>

\* a three-rotor step that moves the right rotor first and reads it afterwards
StepHistoricRightFirst(rotors) ==
    LET left == rotors[1]
        middle == rotors[2]
        right == Step(rotors[3]).rotor
    IN  IF At(left.alphabet, middle.position) \in middle.notches
        THEN <<Step(left).rotor, Step(middle).rotor, right>>
        ELSE IF At(left.alphabet, right.position) \in right.notches
        THEN <<left, Step(middle).rotor, right>>
        ELSE <<left, middle, right>>

\* a three-rotor step in which the middle rotor on its notch carries the
\* left rotor and stays where it is
StepHistoricMiddleStays(rotors) ==
    LET left == rotors[1]
        middle == rotors[2]
        right == rotors[3]
    IN  IF At(left.alphabet, middle.position) \in middle.notches
        THEN <<Step(left).rotor, middle, Step(right).rotor>>
        ELSE IF At(left.alphabet, right.position) \in right.notches
        THEN <<left, Step(middle).rotor, Step(right).rotor>>
        ELSE <<left, middle, Step(right).rotor>>

\* Inop._step_rotors with exactly three rotors: the historical double step
StepHistoric(rotors) ==
    LET left == rotors[1]
        middle == rotors[2]
        right == rotors[3]
    IN  IF At(left.alphabet, middle.position) \in middle.notches
        THEN <<Step(left).rotor, Step(middle).rotor, Step(right).rotor>>
        ELSE IF At(left.alphabet, right.position) \in right.notches
        THEN <<left, Step(middle).rotor, Step(right).rotor>>
        ELSE <<left, middle, Step(right).rotor>>

\* Inop._step_rotors otherwise: the cascade, at rotor i counted from the left
RECURSIVE Cascade(_, _, _)
Cascade(rotors, i, carry) ==
    IF i = 0 \/ ~carry
    THEN rotors
    ELSE LET s == Step(rotors[i])
         IN  Cascade([rotors EXCEPT ![i] = s.rotor], i - 1, s.hit)

\* Inop._step_rotors
StepRotors(rotors) ==
    IF Len(rotors) = 3
    THEN StepHistoric(rotors)
    ELSE Cascade(rotors, Len(rotors), TRUE)

\* for rotor in reversed(self.rotors): signal = rotor.forward(signal)
RECURSIVE RotorsForward(_, _, _)
RotorsForward(rotors, i, signal) ==
    IF i = 0
    THEN signal
    ELSE RotorsForward(rotors, i - 1, Forward(rotors[i], signal))

\* for rotor in self.rotors: signal = rotor.backward(signal)
RECURSIVE RotorsBackward(_, _, _)
RotorsBackward(rotors, i, signal) ==
    IF i > Len(rotors)
    THEN signal
    ELSE RotorsBackward(rotors, i + 1, Backward(rotors[i], signal))

\* steps 2 to 8 of Inop.encypher, on the machine already stepped
SignalPath(machine, letter) ==
    LET k == KbForward(machine.kb, letter)
    IN  IF IsError(k)
        THEN k
        ELSE LET plugged == PlugMap(machine.pb, k.value)
                 inward == RotorsForward(machine.rotors, Len(machine.rotors), plugged)
                 turned == Reflect(machine.reflector, inward)
                 outward == RotorsBackward(machine.rotors, 1, turned)
             IN  KbBackward(machine.kb, PlugMap(machine.pb, outward))

\* the signals after each rotor.forward, from rotor i leftwards
RECURSIVE ForwardTrace(_, _, _)
ForwardTrace(rotors, i, signal) ==
    IF i = 0
    THEN <<>>
    ELSE CHOOSE done \in
             {<<s>> \o ForwardTrace(rotors, i - 1, s) : s \in {Forward(rotors[i], signal)}} : TRUE

\* the signals after each rotor.backward, from rotor i rightwards
RECURSIVE BackwardTrace(_, _, _)
BackwardTrace(rotors, i, signal) ==
    IF i > Len(rotors)
    THEN <<>>
    ELSE CHOOSE done \in
             {<<s>> \o BackwardTrace(rotors, i + 1, s) : s \in {Backward(rotors[i], signal)}} : TRUE

\* every value the variable signal takes in steps 2 to 7 of Inop.encypher,
\* for a letter of the keyboard's alphabet
SignalTrace(machine, letter) ==
    LET keyed == KbForward(machine.kb, letter).value
        plugged == PlugForward(machine.pb, keyed)
        inward == ForwardTrace(machine.rotors, Len(machine.rotors), plugged)
        turned == Reflect(machine.reflector, inward[Len(inward)])
        outward == BackwardTrace(machine.rotors, 1, turned)
    IN  <<keyed, plugged>> \o inward \o <<turned>> \o outward
            \o <<PlugBackward(machine.pb, outward[Len(outward)])>>

\* an encypher that sends the signal before it steps the rotors
EncypherThenStep(machine, letter) ==
    [machine |-> [machine EXCEPT !.rotors = StepRotors(machine.rotors)],
     ret |-> SignalPath(machine, letter)]

\* an encypher that leaves the rotors alone when the keyboard's first symbol
\* is typed
EncypherFirstStays(machine, letter) ==
    LET stepped == IF letter = machine.kb.alphabet[1]
                   THEN machine
                   ELSE [machine EXCEPT !.rotors = StepRotors(machine.rotors)]
    IN  [machine |-> stepped, ret |-> SignalPath(stepped, letter)]

\* an encypher that looks the letter up before it steps, and does not step
\* for a letter the keyboard rejects
EncypherChecksFirst(machine, letter) ==
    IF IsError(KbForward(machine.kb, letter))
    THEN [machine |-> machine, ret |-> KbForward(machine.kb, letter)]
    ELSE [machine |-> [machine EXCEPT !.rotors = StepRotors(machine.rotors)],
          ret |-> SignalPath([machine EXCEPT !.rotors = StepRotors(machine.rotors)],
                             letter)]

\* Inop.encypher: the machine after the call and what the call returned
Encypher(machine, letter) ==
    LET stepped == [machine EXCEPT !.rotors = StepRotors(machine.rotors)]
    IN  [machine |-> stepped, ret |-> SignalPath(stepped, letter)]

\* the rotor positions of a machine
Positions(machine) == [i \in 1..Len(machine.rotors) |-> machine.rotors[i].position]

(***************************************************************************)
(* The wheel catalog.                                                      *)
(***************************************************************************)
W_I ==
    <<"E","K","M","F","L","G","D","Q","V","Z","N","T","O","W","Y","H","X","U","S","P","A","I","B","R","C","J">>
W_II ==
    <<"A","J","D","K","S","I","R","U","X","B","L","H","W","T","M","C","Q","G","Z","N","P","Y","F","V","O","E">>
W_III ==
    <<"B","D","F","H","J","L","C","P","R","T","X","V","Z","N","Y","E","I","W","G","A","K","M","U","S","Q","O">>
W_B ==
    <<"Y","R","U","H","Q","S","L","D","P","X","N","G","O","K","M","I","E","B","F","Z","C","W","V","J","A","T">>
W_R1 ==
    <<"P","F","E","Y","N","J","9","T","O","Z","3","R","W","5","Q","D","8","7","K","2","S","U","A","0","4","C","M","1","H","6","I","L","G","X","/","B","#","V">>
W_R2 ==
    <<"B","/","4","W","X","8","3","G","J","M","Q","I","7","E","A","T","2","0","U","5","6","O","L","P","#","Z","S","R","D","F","9","1","K","H","N","Y","V","C">>
W_D ==
    <<"/","V","E","Y","C","X","K","R","7","N","G","8","6","J","S","#","U","H","O","1","Q","B","0","F","D","5","W","T","4","9","2","Z","M","I","L","3","P","A">>

\* the legacy rotors I, II, III with their historical notches
legacy_rotors ==
    [I |-> Rotor(W_I, <<"Q">>, Alpha26),
     II |-> Rotor(W_II, <<"E">>, Alpha26),
     III |-> Rotor(W_III, <<"V">>, Alpha26)]

\* the 38-symbol rotors R1, R2, which carry no notch
inop38_rotors ==
    [R1 |-> Rotor(W_R1, <<>>, Alpha38),
     R2 |-> Rotor(W_R2, <<>>, Alpha38)]

\* generated wheels over the custom alphabet, labelled L1.. as the generator does
custom_rotors ==
    [L1 |-> Rotor(<<"B","D","A","C">>, <<>>, Alpha4),
     L2 |-> Rotor(<<"C","A","D","B">>, <<>>, Alpha4),
     L3 |-> Rotor(<<"A","D","B","C">>, <<>>, Alpha4),
     L4 |-> Rotor(<<"D","C","B","A">>, <<>>, Alpha4)]

\* generated reflectors over the custom alphabet
custom_reflectors ==
    [LA |-> Reflector(<<"B","A","D","C">>, Alpha4),
     LB |-> Reflector(<<"D","C","B","A">>, Alpha4)]

\* rotor_dict: name -> Rotor
rotor_dict == legacy_rotors @@ inop38_rotors @@ custom_rotors

\* reflector_dict: name -> Reflector
reflector_dict ==
    [B |-> Reflector(W_B, Alpha26), D |-> Reflector(W_D, Alpha38)] @@ custom_reflectors

(***************************************************************************)
(* MachineContext.                                                         *)
(***************************************************************************)
\* notch_map.get(label, "")
NotchGet(notch_map, label) ==
    IF label \in DOMAIN notch_map THEN notch_map[label] ELSE <<>>

\* the first error among the values of a sequence, or None
FirstError(objs) ==
    IF \E i \in 1..Len(objs) : IsError(objs[i])
    THEN objs[CHOOSE i \in 1..Len(objs) :
                 IsError(objs[i]) /\ \A j \in 1..(i - 1) : ~IsError(objs[j])]
    ELSE None

\* the MachineContext object around a built machine
Context(alphabet, cfg, machine) ==
    IF IsError(machine)
    THEN machine
    ELSE [kind |-> "MachineContext",
          alphabet |-> alphabet,
          rotor_names |-> cfg.rotors,
          plugs |-> cfg.plugs,
          ring_set |-> cfg.ring_set,
          notch_map |-> cfg.notch_map,
          master_key |-> cfg.master_key,
          machine |-> machine]

\* MachineContext.from_config: fresh copies of the catalog wheels
FromConfig(cfg) ==
    LET labels == cfg.rotors
        copies == [i \in 1..Len(labels) |-> rotor_dict[labels[i]]]
        refl_obj == reflector_dict[cfg.reflector]
        alphabet == copies[1].alphabet
        rotor_objs == [i \in 1..Len(labels) |->
                          SetNotches(copies[i], NotchGet(cfg.notch_map, labels[i]))]
        pb == Plugboard(cfg.plugs, alphabet)
    IN  IF IsError(FirstError(rotor_objs))
        THEN FirstError(rotor_objs)
        ELSE IF IsError(pb)
        THEN pb
        ELSE Context(alphabet, cfg,
                     Inop(Keyboard(alphabet), pb, rotor_objs, refl_obj,
                          cfg.ring_set, cfg.master_key))

\* MachineContext.__init__: the operator's settings applied to the pools,
\* the notch overrides written to the pool's rotors
MachineContextInit(alphabet, rotor_pool, reflector_pool, settings) ==
    LET pool == [name \in DOMAIN rotor_pool |->
                    IF name \in DOMAIN settings.notch_map
                    THEN SetNotches(rotor_pool[name], settings.notch_map[name])
                    ELSE rotor_pool[name]]
        rotor_objs == [i \in 1..Len(settings.rotors) |-> pool[settings.rotors[i]]]
        refl_obj == reflector_pool[settings.reflector]
        pb == Plugboard(settings.plugs, alphabet)
    IN  IF IsError(FirstError(rotor_objs))
        THEN FirstError(rotor_objs)
        ELSE IF IsError(pb)
        THEN pb
        ELSE Context(alphabet, settings,
                     Inop(Keyboard(alphabet), pb, rotor_objs, refl_obj,
                          settings.ring_set, settings.master_key))

\* the alphabet of the suite named in a configuration
SuiteAlphabet(suite) ==
    CASE suite = "Legacy" -> Alpha26
      [] suite = "INOP-38" -> Alpha38

\* build_from_cfg: zip pairs the rotors, in their order, with the keys of
\* notch_map, in the order the configuration file lists them (notch_keys)
BuildFromCfg(cfg) ==
    LET alpha == SuiteAlphabet(cfg.suite)
        rotors == [i \in 1..Len(cfg.rotors) |-> rotor_dict[cfg.rotors[i]]]
        notched == [i \in 1..Len(rotors) |->
                       IF i <= Len(cfg.notch_keys)
                       THEN SetNotches(rotors[i], cfg.notch_map[cfg.notch_keys[i]])
                       ELSE rotors[i]]
        refl == reflector_dict[cfg.reflector]
        pb == Plugboard(cfg.plugs, alpha)
    IN  IF IsError(FirstError(notched))
        THEN FirstError(notched)
        ELSE IF IsError(pb)
        THEN pb
        ELSE Inop(Keyboard(alpha), pb, notched, refl, cfg.ring_set, cfg.master_key)

\* MachineContext.rewind
Rewind(c) ==
    [c EXCEPT !.machine.rotors = SetKey(c.machine.rotors, KeyPart(c.master_key)),
              !.machine.reflector = RotateToLetter(c.machine.reflector, KeyLast(c.master_key))]

(***************************************************************************)
(* Sessions the model starts from.                                         *)
(***************************************************************************)
\* the legacy suite as the operator sets it up: I II III, reflector B,
\* rings 1 1 1, no plugs, key AAAA; get_notches asks nothing for 26 symbols
LegacySettings ==
    [suite |-> "Legacy",
     rotors |-> <<"I", "II", "III">>,
     reflector |-> "B",
     ring_set |-> <<1, 1, 1>>,
     notch_map |-> <<>>,
     plugs |-> <<>>,
     master_key |-> <<"A", "A", "A", "A">>]

\* rotor orders of the custom sessions: one to four rotors
CustomOrders ==
    {<<"L1">>, <<"L1", "L2">>, <<"L1", "L2", "L3">>, <<"L3", "L1", "L2">>,
     <<"L1", "L2", "L3", "L4">>}

\* notch strings a custom session may give a rotor
NotchChoices == {<<>>, <<"B">>, <<"A", "C">>}

\* saved configurations over the custom alphabet, for one rotor order
CustomConfigsFor(order) ==
    {[suite |-> "custom",
      rotors |-> order,
      reflector |-> refl,
      ring_set |-> SubSeq(rings, 1, Len(order)),
      notch_map |-> nm,
      plugs |-> plugs,
      master_key |-> SubSeq(key, 1, Len(order) + 1)] :
        refl \in {"LA", "LB"},
        rings \in {<<1, 1, 1, 1>>, <<2, 3, 4, 1>>},
        nm \in [SetOf(order) -> NotchChoices],
        plugs \in {<<>>, << <<"A", "C">> >>},
        key \in {<<"A", "A", "A", "A", "A">>, <<"B", "D", "A", "C", "B">>}}

CustomConfigs == UNION {CustomConfigsFor(order) : order \in CustomOrders}

\* the contexts a run may start with
Sessions ==
    {MachineContextInit(Alpha26, legacy_rotors, reflector_dict, LegacySettings)}
        \cup {FromConfig(cfg) : cfg \in CustomConfigs}

(***************************************************************************)
(* The engine as a state machine: keypresses and rewinds.                  *)
(***************************************************************************)
NoContext == [kind |-> "None"]
NoWheel == [kind |-> "None"]
NoPipe == [kind |-> "None"]

\* a symbol of no alphabet
Foreign == "?"

\* how many keypresses the model follows on a context
PressLimit(c) == IF Len(c.alphabet) > 4 THEN MaxPresses ELSE MaxSmallPresses

\* keypresses since construction or the last rewind
Presses == Len(trail) - 1

Init ==
    /\ ctx \in Sessions
    /\ call = [op |-> "init", arg |-> "", ret |-> None]
    /\ trail = <<Positions(ctx.machine)>>
    /\ wheel = NoWheel
    /\ pipe = NoPipe

\* one call of Inop.encypher on the session's machine
Press(letter) ==
    /\ Presses < PressLimit(ctx)
    /\ LET r == Encypher(ctx.machine, letter)
       IN  /\ ctx' = [ctx EXCEPT !.machine = r.machine]
           /\ call' = [op |-> "encypher", arg |-> letter, ret |-> r.ret]
    /\ trail' = Append(trail, Positions(Encypher(ctx.machine, letter).machine))
    /\ UNCHANGED <<wheel, pipe>>

\* one call of MachineContext.rewind
DoRewind ==
    /\ Presses > 0
    /\ ctx' = Rewind(ctx)
    /\ call' = [op |-> "rewind", arg |-> "", ret |-> None]
    /\ trail' = <<Positions(Rewind(ctx).machine)>>
    /\ UNCHANGED <<wheel, pipe>>

Next ==
    \/ \E letter \in SetOf(ctx.alphabet) \cup {Foreign} : Press(letter)
    \/ DoRewind

Spec == Init /\ [][Next]_vars

(***************************************************************************)
(* Text helpers of the pipeline.                                           *)
(***************************************************************************)
\* str.upper on the symbols the model's messages use
Upper(ch) ==
    CASE ch = "a" -> "A"
      [] ch = "b" -> "B"
      [] OTHER -> ch

\* "".join(ch for ch in text if ch in alpha)
RECURSIVE Filter(_, _)
Filter(s, alpha) ==
    IF s = <<>>
    THEN <<>>
    ELSE IF In(Head(s), alpha)
    THEN <<Head(s)>> \o Filter(Tail(s), alpha)
    ELSE Filter(Tail(s), alpha)

\* text.replace(" ", with)
RECURSIVE ReplaceSpace(_, _)
ReplaceSpace(s, with) ==
    IF s = <<>>
    THEN <<>>
    ELSE (IF Head(s) = " " THEN with ELSE <<Head(s)>>) \o ReplaceSpace(Tail(s), with)

\* preprocess_message
PreprocessMessage(msg, alpha) ==
    LET text == [i \in 1..Len(msg) |-> Upper(msg[i])]
        spaced == ReplaceSpace(text, IF In("#", alpha) THEN <<"#">> ELSE <<>>)
    IN  Filter(spaced, alpha)

\* real.replace("#", " ")
HashToSpace(s) == [i \in 1..Len(s) |-> IF s[i] = "#" THEN " " ELSE s[i]]

\* s[a:b] for 0 <= a and 0 <= b
Slice(s, a, b) ==
    IF a >= b \/ a >= Len(s) THEN <<>> ELSE SubSeq(s, a + 1, IF b > Len(s) THEN Len(s) ELSE b)

\* marker occurs in full at 0-based index i
OccursAt(full, marker, i) ==
    /\ i + Len(marker) <= Len(full)
    /\ SubSeq(full, i + 1, i + Len(marker)) = marker

\* str.find
Find(full, marker) ==
    IF \E i \in 0..Len(full) : OccursAt(full, marker, i)
    THEN CHOOSE i \in 0..Len(full) :
            OccursAt(full, marker, i) /\ \A j \in 0..(i - 1) : ~OccursAt(full, marker, j)
    ELSE -1

\* str.rfind
RFind(full, marker) ==
    IF \E i \in 0..Len(full) : OccursAt(full, marker, i)
    THEN CHOOSE i \in 0..Len(full) :
            OccursAt(full, marker, i) /\ \A j \in (i + 1)..Len(full) : ~OccursAt(full, marker, j)
    ELSE -1

\* every string of exactly n symbols of alpha: what n secure_choice draws can give
Strings(alpha, n) == [1..n -> SetOf(alpha)]

\* make_marker: the markers it can return
MakeMarker(alpha, length) == Strings(alpha, length)

\* the message lengths below 1300 at which the float product len * 0.35 falls
\* just short of the whole number 35 * len / 100
FloatShort ==
    {180, 340, 360, 660, 680, 700, 720}

\* int(len(msg) * 0.35)
ScaledPart(len) ==
    IF len \in FloatShort THEN (len * 35) \div 100 - 1 ELSE (len * 35) \div 100

\* n of pad_message: how many cover symbols are added
NoiseCount(len, base_noise, block, target_residue) ==
    LET part == ScaledPart(len)
        scaled_noise == IF base_noise > part THEN base_noise ELSE part
        residue == (len + scaled_noise) % block
        extra == (target_residue - residue) % block
    IN  scaled_noise + extra

\* pad_message: every text it can return, over the draws of randbelow and
\* secure_choice
PadMessage(msg, alpha, base_noise, block, target_residue) ==
    LET n == NoiseCount(Len(msg), base_noise, block, target_residue)
    IN  UNION {{prefix \o msg \o suffix :
                    prefix \in Strings(alpha, front_len),
                    suffix \in Strings(alpha, n - front_len)} :
               front_len \in 0..n}

\* extract_message
ExtractMessage(full, marker) ==
    LET i == Find(full, marker)
        j == RFind(full, marker)
    IN  IF i = -1 \/ j = -1 \/ i = j
        THEN ValueError("Markers not found - padding removal failed")
        ELSE Ok(Slice(full, i + Len(marker), j))

(***************************************************************************)
(* Padding on its own: pad_message and extract_message applied to inputs   *)
(* drawn from bounded sets.                                                *)
(***************************************************************************)
\* the alphabet the padding is exercised on
Alpha2 ==
    <<"A", "B">>

\* strings of up to n symbols of alpha
UpTo(alpha, n) == UNION {Strings(alpha, k) : k \in 0..n}

InitPadding ==
    /\ \E marker \in UpTo(Alpha2, MaxPadMarkerLen) \ {<<>>},
          msg \in UpTo(Alpha2, MaxMsgLen),
          base_noise \in 0..MaxNoise,
          block \in 1..MaxBlock :
          pipe = [op |-> "input", marker |-> marker, msg |-> msg,
                  base_noise |-> base_noise, block |-> block,
                  full |-> <<>>, ret |-> None]
    /\ ctx = NoContext
    /\ call = [op |-> "init", arg |-> 0, ret |-> 0]
    /\ trail = <<>>
    /\ wheel = NoWheel

\* pad_message(marker + msg + marker, alpha, base_noise=.., block=..)
Pad ==
    /\ pipe.op = "input"
    /\ \E full \in PadMessage(pipe.marker \o pipe.msg \o pipe.marker, Alpha2,
                              pipe.base_noise, pipe.block, 1) :
          pipe' = [pipe EXCEPT !.op = "pad_message", !.full = full]
    /\ UNCHANGED <<ctx, call, trail, wheel>>

\* extract_message(full, marker)
Extract ==
    /\ pipe.op = "pad_message"
    /\ pipe' = [pipe EXCEPT !.op = "extract_message",
                            !.ret = ExtractMessage(pipe.full, pipe.marker)]
    /\ UNCHANGED <<ctx, call, trail, wheel>>

NextPadding == Pad \/ Extract

SpecPadding == InitPadding /\ [][NextPadding]_vars

\* pad_message on long messages: the message a run of B, the cover drawn
\* from the one-symbol alphabet A, so that the split shows in the result
InitNoise ==
    /\ \E len \in 0..MaxPadLen, base_noise \in {0, 8}, block \in {1, 5} :
          pipe = [op |-> "input", marker |-> <<>>, msg |-> [i \in 1..len |-> "B"],
                  base_noise |-> base_noise, block |-> block,
                  full |-> <<>>, ret |-> None]
    /\ ctx = NoContext
    /\ call = [op |-> "init", arg |-> 0, ret |-> 0]
    /\ trail = <<>>
    /\ wheel = NoWheel

\* pad_message(msg, "A", base_noise=.., block=..)
PadLong ==
    /\ pipe.op = "input"
    /\ \E full \in PadMessage(pipe.msg, <<"A">>, pipe.base_noise, pipe.block, 1) :
          pipe' = [pipe EXCEPT !.op = "pad_message", !.full = full]
    /\ UNCHANGED <<ctx, call, trail, wheel>>

NextNoise == PadLong

SpecNoise == InitNoise /\ [][NextNoise]_vars

\* C26 as stated: pad_message returns the message, whole and in one piece,
\* between n cover symbols of the alphabet, n being the larger of base_noise
\* and floor(0.35 * len(msg)) raised by less than block so that the length
\* of the result is 1 modulo block
C26_PaddingCount ==
    pipe.op = "pad_message" =>
        LET len == Len(pipe.msg)
            n == Len(pipe.full) - len
            floor == (35 * len) \div 100
            least == IF pipe.base_noise > floor THEN pipe.base_noise ELSE floor
        IN  /\ least <= n
            /\ n < least + pipe.block
            /\ (len + n) % pipe.block = 1 % pipe.block
            /\ \E front_len \in 0..n :
                  /\ SubSeq(pipe.full, front_len + 1, front_len + len) = pipe.msg
                  /\ \A k \in (1..front_len) \cup ((front_len + len + 1)..Len(pipe.full)) :
                        pipe.full[k] = "A"

\* C2 as stated: whatever cover symbols and split pad_message draws,
\* extract_message gives back exactly the message that was framed
C2_PadRoundTrip ==
    pipe.op = "extract_message" => pipe.ret = Ok(pipe.msg)

(***************************************************************************)
(* CipherPipeline: one encrypt and the decrypt of what it returned, as     *)
(* main's one-shot mode runs them.                                         *)
(***************************************************************************)
\* the loop of MachineContext.encipher_block from symbol k on; each
\* encypher call is evaluated once and its result r carried on
RECURSIVE TypeAll(_, _, _, _)
TypeAll(machine, text, k, out) ==
    IF k > Len(text)
    THEN [machine |-> machine, ret |-> Ok(out)]
    ELSE CHOOSE done \in
             {IF IsError(r.ret)
              THEN [machine |-> r.machine, ret |-> r.ret]
              ELSE TypeAll(r.machine, text, k + 1, Append(out, r.ret.value)) :
                 r \in {Encypher(machine, text[k])}} : TRUE

\* an encipher_block that types on from wherever the rotors stand
EncipherBlockNoRewind(c, text) ==
    CHOOSE done \in
        {[ctx |-> [c EXCEPT !.machine = r.machine], ret |-> r.ret] :
            r \in {TypeAll(c.machine, text, 1, <<>>)}} : TRUE

\* MachineContext.encipher_block: rewind, then encypher symbol by symbol
EncipherBlock(c, text) ==
    CHOOSE done \in
        {[ctx |-> [c EXCEPT !.machine = r.machine], ret |-> r.ret] :
            r \in {TypeAll(Rewind(c).machine, text, 1, <<>>)}} : TRUE

\* the one or two passes shared by encrypt and decrypt
Passes(c, double_pass, text) ==
    IF double_pass
    THEN CHOOSE done \in
             {IF IsError(stage1.ret)
              THEN stage1
              ELSE EncipherBlock(stage1.ctx, Reverse(stage1.ret.value)) :
                 stage1 \in {EncipherBlock(c, text)}} : TRUE
    ELSE EncipherBlock(c, text)

\* the marker and padded text CipherPipeline.encrypt may work on
Workings(cfg, alphabet, msg) ==
    IF cfg.do_padding
    THEN UNION {{[marker |-> Ok(marker), working |-> working] :
                    working \in PadMessage(marker \o msg \o marker, alphabet,
                                           cfg.base_noise, cfg.block, 1)} :
                marker \in MakeMarker(alphabet, cfg.marker_len)}
    ELSE {[marker |-> None, working |-> msg]}

\* CipherPipeline.encrypt once the marker and cover are drawn
EncryptDrawn(c, cfg, drawn) ==
    Passes(c, cfg.double_pass, PreprocessMessage(drawn.working, c.alphabet))

\* CipherPipeline.decrypt
Decrypt(c, cfg, cipher, marker) ==
    CHOOSE done \in
        {IF IsError(full_plain.ret)
         THEN full_plain
         ELSE LET real == IF cfg.do_padding /\ marker.kind # "None"
                          THEN ExtractMessage(full_plain.ret.value, marker.value)
                          ELSE full_plain.ret
              IN  [ctx |-> full_plain.ctx,
                   ret |-> IF IsError(real) THEN real
                           ELSE Ok(HashToSpace(real.value))] :
            full_plain \in {Passes(c, cfg.double_pass, cipher)}} : TRUE

\* the symbols messages are written with: alphabet symbols, a lower-case
\* letter, a space, and '#' where the alphabet has it
MsgSymbols(alphabet) ==
    {"A", "B", "a", " "} \cup (IF In("#", alphabet) THEN {"#"} ELSE {})

\* a 38-symbol session and two sessions over the custom alphabet
PipelineSessions ==
    {MachineContextInit(Alpha26, legacy_rotors, reflector_dict, LegacySettings),
     FromConfig([suite |-> "INOP-38", rotors |-> <<"R1", "R2">>, reflector |-> "D",
                 ring_set |-> <<3, 38>>, notch_map |-> [R1 |-> <<"#">>, R2 |-> <<"B", "0">>],
                 plugs |-> << <<"A", "#">> >>, master_key |-> <<"A", "/", "K">>]),
     FromConfig([suite |-> "custom", rotors |-> <<"L3", "L1", "L2">>, reflector |-> "LB",
                 ring_set |-> <<2, 3, 4>>,
                 notch_map |-> [L1 |-> <<"B">>, L2 |-> <<"A", "C">>, L3 |-> <<>>],
                 plugs |-> << <<"A", "C">> >>, master_key |-> <<"B", "D", "A", "C">>]),
     FromConfig([suite |-> "custom", rotors |-> <<"L1", "L2">>, reflector |-> "LA",
                 ring_set |-> <<1, 1>>,
                 notch_map |-> [L1 |-> <<"B">>, L2 |-> <<"B">>],
                 plugs |-> <<>>, master_key |-> <<"A", "A", "A">>])}

\* Config: the pipeline switches.  Cover symbols are drawn over the whole
\* alphabet, so padding is followed on the custom alphabet only.
Configs(alphabet) ==
    {[double_pass |-> dp, do_padding |-> pad, step_reflector |-> sr,
      block |-> block, base_noise |-> noise, marker_len |-> ml] :
        dp \in BOOLEAN, sr \in BOOLEAN,
        pad \in IF Len(alphabet) > Len(Alpha4) THEN {FALSE} ELSE BOOLEAN,
        block \in 1..MaxBlock, noise \in 0..MaxNoise, ml \in 1..MaxMarkerLen}

\* CipherPipeline.__init__: the context, with the flag written on its machine
CipherPipeline(c, cfg) ==
    [c EXCEPT !.machine = [step_reflector_flag |-> cfg.step_reflector] @@ c.machine]

InitPipeline ==
    /\ \E c \in PipelineSessions :
          \E cfg \in Configs(c.alphabet) :
              /\ ctx = CipherPipeline(c, cfg)
              /\ pipe = [op |-> "CipherPipeline", cfg |-> cfg, msg |-> <<>>,
                         marker |-> None, clean |-> <<>>, cipher |-> <<>>,
                         ret |-> None]
    /\ call = [op |-> "init", arg |-> "", ret |-> None]
    /\ trail = <<Positions(ctx.machine)>>
    /\ wheel = NoWheel

\* crypto.encrypt(msg)
Encrypt(msg) ==
    /\ pipe.op = "CipherPipeline"
    /\ \E drawn \in Workings(pipe.cfg, ctx.alphabet, msg) :
          \E r \in {EncryptDrawn(ctx, pipe.cfg, drawn)} :
              /\ ctx' = r.ctx
              /\ pipe' = [pipe EXCEPT !.op = "encrypt", !.msg = msg,
                                      !.marker = drawn.marker,
                                      !.clean = PreprocessMessage(drawn.working,
                                                                  ctx.alphabet),
                                      !.cipher = r.ret.value, !.ret = r.ret]
              /\ trail' = <<Positions(r.ctx.machine)>>
    /\ UNCHANGED <<call, wheel>>

\* crypto.decrypt(cipher, marker) on what encrypt returned
DoDecrypt ==
    /\ pipe.op = "encrypt"
    /\ \E r \in {Decrypt(ctx, pipe.cfg, pipe.cipher, pipe.marker)} :
           /\ ctx' = r.ctx
           /\ pipe' = [pipe EXCEPT !.op = "decrypt", !.ret = r.ret]
           /\ trail' = <<Positions(r.ctx.machine)>>
    /\ UNCHANGED <<call, wheel>>

NextPipeline ==
    \/ \E msg \in UpTo(<<"A">>, 0) \cup
                  UNION {[1..k -> MsgSymbols(ctx.alphabet)] : k \in 1..MaxMsgLen} :
          Encrypt(msg)
    \/ DoDecrypt

SpecPipeline == InitPipeline /\ [][NextPipeline]_vars

\* C1 as stated: for a message of alphabet symbols, decrypt of what encrypt
\* returned is exactly the preprocessed message
C1_RoundTrip ==
    (pipe.op = "decrypt" /\ SetOf(pipe.msg) \subseteq SetOf(ctx.alphabet))
        => pipe.ret = Ok(PreprocessMessage(pipe.msg, ctx.alphabet))

\* where the last letter of the master key puts the reflector
KeyReflectorPosition == Index(ctx.alphabet, KeyLast(ctx.master_key))

\* C12 as stated: with the step_reflector flag on, each keypress of the last
\* pass moved the reflector on by one from where the rewind put it; with the
\* flag off the reflector stands where the master key put it
C12_ReflectorFollowsFlag ==
    pipe.op \in {"encrypt", "decrypt"} =>
        ctx.machine.reflector.position =
            IF ctx.machine.step_reflector_flag
            THEN (KeyReflectorPosition + Len(pipe.cipher)) % Len(ctx.alphabet)
            ELSE KeyReflectorPosition

\* C13 as stated: with padding on, decrypt either fails or returns the framed
\* message itself, with no cover symbol and no marker symbol left in it
C13_StripsOrFails ==
    (pipe.op = "decrypt" /\ pipe.cfg.do_padding) =>
        \/ IsError(pipe.ret)
        \/ pipe.ret = Ok(PreprocessMessage(pipe.msg, ctx.alphabet))

\* C25: on the text encrypt worked on, two encipher_block calls in a row
\* give the text back; with double_pass the ciphertext is the second pass
\* over the reverse of the first, the same two passes over the ciphertext
\* give the text back, and the ciphertext is as long as the text
C25_PassesMirror ==
    pipe.op = "encrypt" =>
        \E once \in {EncipherBlock(ctx, pipe.clean)} :
            \E twice \in {EncipherBlock(once.ctx, once.ret.value)} :
                /\ twice.ret = Ok(pipe.clean)
                /\ Len(pipe.cipher) = Len(pipe.clean)
                /\ ~pipe.cfg.double_pass => pipe.cipher = once.ret.value
                /\ pipe.cfg.double_pass =>
                      \E second \in {EncipherBlock(once.ctx, Reverse(once.ret.value))} :
                          \E back \in {EncipherBlock(second.ctx, second.ret.value)} :
                              \E again \in {EncipherBlock(back.ctx, Reverse(back.ret.value))} :
                                  /\ pipe.cipher = second.ret.value
                                  /\ again.ret = Ok(pipe.clean)

\* a double pass over a padded text of five symbols or more that is not a
\* palindrome, on three rotors with plugs
C25_Witness ==
    /\ pipe.op = "encrypt"
    /\ pipe.cfg.double_pass
    /\ pipe.cfg.do_padding
    /\ Len(pipe.clean) >= 5
    /\ Reverse(pipe.clean) # pipe.clean
    /\ Len(ctx.machine.rotors) = 3
    /\ ctx.plugs # <<>>
    /\ pipe.cipher # pipe.clean

(***************************************************************************)
(* Wheels on their own: construction from any wiring string, ring and      *)
(* position changes, and single signal calls.                              *)
(***************************************************************************)
\* wiring strings offered to the constructors: every string of the alphabet's
\* length, and one that is a symbol short
Wirings == [1..Len(Alpha4) -> SetOf(Alpha4)] \cup {<<"B", "A", "C">>}

\* notch strings offered to the constructors, one with a foreign symbol
NotchStrings == NotchChoices \cup {<<"A", Foreign>>}

\* the signals of the wheel's alphabet
Signals(w) == 0..(w.size - 1)

InitWheels ==
    /\ wheel = NoWheel
    /\ call = [op |-> "init", arg |-> 0, ret |-> 0]
    /\ ctx = NoContext
    /\ trail = <<>>
    /\ pipe = NoPipe

\* Rotor(wiring, notches, alphabet)
MakeRotor(wiring, notches) ==
    /\ wheel.kind = "None"
    /\ wheel' = Rotor(wiring, notches, Alpha4)
    /\ call' = [op |-> "Rotor", arg |-> <<wiring, notches>>, ret |-> 0]
    /\ UNCHANGED <<ctx, trail, pipe>>

\* Reflector(wiring, alphabet)
MakeReflector(wiring) ==
    /\ wheel.kind = "None"
    /\ wheel' = Reflector(wiring, Alpha4)
    /\ call' = [op |-> "Reflector", arg |-> wiring, ret |-> 0]
    /\ UNCHANGED <<ctx, trail, pipe>>

\* rotor.set_ring(ring)
WheelSetRing(ring) ==
    /\ wheel.kind = "Rotor"
    /\ wheel' = SetRing(wheel, ring)
    /\ call' = [op |-> "set_ring", arg |-> ring, ret |-> 0]
    /\ UNCHANGED <<ctx, trail, pipe>>

\* rotor.set_notches(notches): the notch set is replaced unless the call raises
WheelSetNotches(notches) ==
    /\ wheel.kind = "Rotor"
    /\ LET r == SetNotches(wheel, notches)
       IN  /\ wheel' = IF IsError(r) THEN wheel ELSE r
           /\ call' = [op |-> "set_notches", arg |-> notches,
                       ret |-> IF IsError(r) THEN 1 ELSE 0]
    /\ UNCHANGED <<ctx, trail, pipe>>

\* rotor.step()
WheelStep ==
    /\ wheel.kind = "Rotor"
    /\ wheel' = Step(wheel).rotor
    /\ call' = [op |-> "step", arg |-> wheel.position,
                ret |-> IF Step(wheel).hit THEN 1 ELSE 0]
    /\ UNCHANGED <<ctx, trail, pipe>>

\* reflector.rotate_to_letter(L)
WheelRotateTo(L) ==
    /\ wheel.kind = "Reflector"
    /\ LET f == RotateToLetter(wheel, L)
       IN  /\ wheel' = IF IsError(f) THEN wheel ELSE f
           /\ call' = [op |-> "rotate_to_letter", arg |-> 0, ret |-> IF IsError(f) THEN 1 ELSE 0]
    /\ UNCHANGED <<ctx, trail, pipe>>

\* rotor.forward(sig)
WheelForward(sig) ==
    /\ wheel.kind = "Rotor"
    /\ call' = [op |-> "forward", arg |-> sig, ret |-> Forward(wheel, sig)]
    /\ UNCHANGED <<wheel, ctx, trail, pipe>>

\* rotor.backward(sig)
WheelBackward(sig) ==
    /\ wheel.kind = "Rotor"
    /\ call' = [op |-> "backward", arg |-> sig, ret |-> Backward(wheel, sig)]
    /\ UNCHANGED <<wheel, ctx, trail, pipe>>

\* reflector.reflect(sig)
WheelReflect(sig) ==
    /\ wheel.kind = "Reflector"
    /\ call' = [op |-> "reflect", arg |-> sig, ret |-> Reflect(wheel, sig)]
    /\ UNCHANGED <<wheel, ctx, trail, pipe>>

NextWheels ==
    \/ \E wiring \in Wirings, notches \in NotchStrings : MakeRotor(wiring, notches)
    \/ \E wiring \in Wirings : MakeReflector(wiring)
    \/ \E ring \in 1..Len(Alpha4) : WheelSetRing(ring)
    \/ \E notches \in NotchStrings : WheelSetNotches(notches)
    \/ WheelStep
    \/ \E L \in SetOf(Alpha4) \cup {Foreign} : WheelRotateTo(L)
    \/ \E sig \in 0..(Len(Alpha4) - 1) : WheelForward(sig)
    \/ \E sig \in 0..(Len(Alpha4) - 1) : WheelBackward(sig)
    \/ \E sig \in 0..(Len(Alpha4) - 1) : WheelReflect(sig)

SpecWheels == InitWheels /\ [][NextWheels]_vars

\* C7: on every constructed rotor, at any position and ring offset, backward
\* undoes forward and forward undoes backward, for every signal and for the
\* call just made
C7_RotorInverse ==
    wheel.kind = "Rotor" =>
        /\ \A s \in Signals(wheel) :
              /\ Backward(wheel, Forward(wheel, s)) = s
              /\ Forward(wheel, Backward(wheel, s)) = s
        /\ call.op = "forward" => Backward(wheel, call.ret) = call.arg
        /\ call.op = "backward" => Forward(wheel, call.ret) = call.arg

\* a turned rotor with a ring offset sent a signal to a different contact
C7_Witness ==
    /\ wheel.kind = "Rotor"
    /\ wheel.position = 3
    /\ wheel.ring_setting = 1
    /\ wheel.fwd # wheel.rev
    /\ call.op = "forward"
    /\ call.ret # call.arg
    /\ Backward(wheel, call.ret) = call.arg

\* C8: on every constructed reflector, at any position, reflect is its own
\* inverse and sends no signal back on its own contact
C8_ReflectorInvolution ==
    wheel.kind = "Reflector" =>
        /\ \A s \in Signals(wheel) :
              /\ Reflect(wheel, Reflect(wheel, s)) = s
              /\ Reflect(wheel, s) # s
        /\ call.op = "reflect" =>
              (Reflect(wheel, call.ret) = call.arg /\ call.ret # call.arg)

\* a reflector turned off its home position reflected a signal
C8_Witness ==
    /\ wheel.kind = "Reflector"
    /\ wheel.position = 1
    /\ call.op = "reflect"
    /\ Reflect(wheel, call.ret) = call.arg
    /\ call.ret # call.arg

\* wiring names every symbol of the alphabet once
IsPermutation(wiring, alphabet) ==
    /\ Len(wiring) = Len(alphabet)
    /\ SetOf(wiring) = SetOf(alphabet)

\* wiring pairs every symbol of the alphabet with another one, both ways
IsPairing(wiring, alphabet) ==
    /\ Len(wiring) = Len(alphabet)
    /\ \A i \in 1..Len(alphabet) :
          \E j \in 1..Len(alphabet) :
              j # i /\ wiring[i] = alphabet[j] /\ wiring[j] = alphabet[i]

\* C18: Rotor construction raises exactly when the wiring is not a
\* permutation of the alphabet, and a constructed rotor's backward table is
\* the inverse of its forward table; Reflector construction raises exactly
\* when the wiring is not of the alphabet's length or is not an involution
\* without fixed point
C18_ExactlyValidWirings ==
    /\ call.op = "Rotor" => (IsError(wheel) <=> ~IsPermutation(call.arg[1], Alpha4))
    /\ call.op = "Reflector" => (IsError(wheel) <=> ~IsPairing(call.arg, Alpha4))
    /\ wheel.kind = "Rotor" =>
          \A i \in Signals(wheel) :
              /\ At(wheel.rev, At(wheel.fwd, i)) = i
              /\ At(wheel.fwd, At(wheel.rev, i)) = i

\* a rotor was constructed from a wiring that is not the alphabet itself
C18_Witness ==
    /\ call.op = "Rotor"
    /\ wheel.kind = "Rotor"
    /\ wheel.fwd # wheel.rev
    /\ IsPermutation(call.arg[1], Alpha4)

\* C19 as stated: no rotor holds a notch symbol outside its alphabet:
\* construction raises on such a notch string, set_notches raises on one and
\* otherwise makes the string's symbols the notch set
C19_NotchesInAlphabet ==
    /\ wheel.kind = "Rotor" => wheel.notches \subseteq SetOf(wheel.alphabet)
    /\ (call.op = "Rotor" /\ ~(SetOf(call.arg[2]) \subseteq SetOf(Alpha4)))
          => IsError(wheel)
    /\ call.op = "set_notches" =>
          IF SetOf(call.arg) \subseteq SetOf(Alpha4)
          THEN call.ret = 0 /\ wheel.notches = SetOf(call.arg)
          ELSE call.ret = 1

(***************************************************************************)
(* Keyboard and Plugboard on their own: construction from any pair list   *)
(* and single calls.                                                       *)
(***************************************************************************)
\* the symbols pairs are written with: the alphabet's and a foreign one
PairSymbols == SetOf(Alpha4) \cup {Foreign}

\* the pairs offered to the constructor: every two-symbol string, a string
\* of one symbol and one of three
PairChoices == [1..2 -> PairSymbols] \cup {<<"A">>, <<"A", "B", "C">>}

\* pair lists of up to n pairs
PairLists(n) == UNION {[1..k -> PairChoices] : k \in 0..n}

InitBoards ==
    /\ wheel = NoWheel
    /\ call = [op |-> "init", arg |-> 0, ret |-> 0]
    /\ ctx = NoContext
    /\ trail = <<>>
    /\ pipe = NoPipe

\* Plugboard(pairs, alphabet)
MakePlugboard(pairs) ==
    /\ wheel.kind = "None"
    /\ wheel' = Plugboard(pairs, Alpha4)
    /\ call' = [op |-> "Plugboard", arg |-> pairs, ret |-> 0]
    /\ UNCHANGED <<ctx, trail, pipe>>

\* plugboard.forward(signal)
BoardForward(signal) ==
    /\ wheel.kind = "Plugboard"
    /\ call' = [op |-> "pb.forward", arg |-> signal, ret |-> PlugForward(wheel, signal)]
    /\ UNCHANGED <<wheel, ctx, trail, pipe>>

\* plugboard.backward(signal)
BoardBackward(signal) ==
    /\ wheel.kind = "Plugboard"
    /\ call' = [op |-> "pb.backward", arg |-> signal, ret |-> PlugBackward(wheel, signal)]
    /\ UNCHANGED <<wheel, ctx, trail, pipe>>

\* Keyboard(alphabet)
MakeKeyboard(alphabet) ==
    /\ wheel.kind = "None"
    /\ wheel' = Keyboard(alphabet)
    /\ call' = [op |-> "Keyboard", arg |-> alphabet, ret |-> 0]
    /\ UNCHANGED <<ctx, trail, pipe>>

\* keyboard.forward(letter)
KeyForward(letter) ==
    /\ wheel.kind = "Keyboard"
    /\ call' = [op |-> "kb.forward", arg |-> letter, ret |-> KbForward(wheel, letter)]
    /\ UNCHANGED <<wheel, ctx, trail, pipe>>

\* keyboard.backward(signal)
KeyBackward(signal) ==
    /\ wheel.kind = "Keyboard"
    /\ call' = [op |-> "kb.backward", arg |-> signal, ret |-> KbBackward(wheel, signal)]
    /\ UNCHANGED <<wheel, ctx, trail, pipe>>

NextBoards ==
    \/ \E pairs \in PairLists(MaxPairs) : MakePlugboard(pairs)
    \/ \E signal \in 0..(Len(Alpha4) - 1) : BoardForward(signal)
    \/ \E signal \in 0..(Len(Alpha4) - 1) : BoardBackward(signal)
    \/ \E alphabet \in {Alpha4, Alpha26, Alpha38} : MakeKeyboard(alphabet)
    \/ \E letter \in SetOf(Alpha38) \cup {Foreign} : KeyForward(letter)
    \/ \E signal \in (-2)..(Len(Alpha38) + 1) : KeyBackward(signal)

SpecBoards == InitBoards /\ [][NextBoards]_vars

\* some pair of the list is not two symbols, pairs a symbol with itself,
\* shares a symbol with an earlier pair or names a symbol outside the alphabet
Malformed(pairs, alphabet) ==
    \E k \in 1..Len(pairs) :
        \/ Len(pairs[k]) # 2
        \/ pairs[k][1] = pairs[k][2]
        \/ \E j \in 1..(k - 1) : SetOf(pairs[j]) \cap SetOf(pairs[k]) # {}
        \/ ~(SetOf(pairs[k]) \subseteq SetOf(alphabet))

\* C16: Plugboard construction raises exactly on the malformed pair lists,
\* and the empty list gives the identity mapping
C16_PlugboardConstruction ==
    call.op = "Plugboard" =>
        /\ IsError(wheel) <=> Malformed(call.arg, Alpha4)
        /\ call.arg = <<>> => wheel.mapping = [ch \in SetOf(Alpha4) |-> ch]

\* a list of two well-formed pairs was accepted
C16_Witness ==
    /\ call.op = "Plugboard"
    /\ Len(call.arg) = 2
    /\ ~Malformed(call.arg, Alpha4)
    /\ wheel.kind = "Plugboard"

\* C17: on a constructed plugboard forward and backward agree, applying
\* them twice gives the signal back, each configured pair is of two
\* different symbols whose indices are swapped, no symbol is in two pairs and
\* the index of a symbol in no pair maps to itself
C17_PlugboardInvolution ==
    wheel.kind = "Plugboard" =>
        /\ \A s \in 0..(Len(wheel.alphabet) - 1) :
              /\ PlugForward(wheel, s) = PlugBackward(wheel, s)
              /\ PlugForward(wheel, s) \in 0..(Len(wheel.alphabet) - 1)
              /\ PlugForward(wheel, PlugForward(wheel, s)) = s
        /\ call.op = "Plugboard" =>
              /\ \A k \in 1..Len(call.arg) :
                    LET a == Index(wheel.alphabet, call.arg[k][1])
                        b == Index(wheel.alphabet, call.arg[k][2])
                    IN  /\ a # b
                        /\ PlugForward(wheel, a) = b
                        /\ PlugForward(wheel, b) = a
                        /\ \A j \in 1..Len(call.arg) :
                              j # k => SetOf(call.arg[j]) \cap SetOf(call.arg[k]) = {}
              /\ \A s \in 0..(Len(wheel.alphabet) - 1) :
                    (\A k \in 1..Len(call.arg) : ~In(At(wheel.alphabet, s), call.arg[k]))
                        => PlugForward(wheel, s) = s
        /\ call.op \in {"pb.forward", "pb.backward"} =>
              PlugBackward(wheel, call.ret) = call.arg

\* a plugboard of two pairs was constructed
C17_Witness ==
    /\ call.op = "Plugboard"
    /\ wheel.kind = "Plugboard"
    /\ Len(call.arg) = 2
    /\ PlugForward(wheel, 0) # 0

\* C20: Keyboard.forward gives the index of an alphabet symbol and raises
\* for any other symbol, Keyboard.backward gives the symbol at an index
\* within the alphabet and raises for any other index, and each undoes the
\* other
C20_KeyboardMapping ==
    wheel.kind = "Keyboard" =>
        LET size == Len(wheel.alphabet)
        IN  /\ \A c \in SetOf(Alpha38) \cup {Foreign} :
                  IF In(c, wheel.alphabet)
                  THEN /\ KbForward(wheel, c) = Ok(Index(wheel.alphabet, c))
                       /\ KbBackward(wheel, KbForward(wheel, c).value) = Ok(c)
                  ELSE IsError(KbForward(wheel, c))
            /\ \A i \in (-2)..(Len(Alpha38) + 1) :
                  IF 0 <= i /\ i < size
                  THEN /\ KbBackward(wheel, i) = Ok(At(wheel.alphabet, i))
                       /\ KbForward(wheel, KbBackward(wheel, i).value) = Ok(i)
                  ELSE IsError(KbBackward(wheel, i))
            /\ call.op = "kb.forward" =>
                  (IsError(call.ret) <=> ~In(call.arg, wheel.alphabet))
            /\ call.op = "kb.backward" =>
                  (IsError(call.ret) <=> ~(0 <= call.arg /\ call.arg < size))

\* backward was called with the index just below the range and raised
C20_Witness ==
    /\ wheel.kind = "Keyboard"
    /\ call.op = "kb.backward"
    /\ call.arg = -1
    /\ IsError(call.ret)

(***************************************************************************)
(* Wheels as objects.  Python hands wheels around by reference: a store    *)
(* maps object names to Rotor and Reflector values, and an engine holds    *)
(* the names of its wheels, so that two slots may name one object.         *)
(***************************************************************************)
\* the engine's wheels read out of the store
Deref(store, engine) ==
    [kind |-> "Inop",
     kb |-> engine.kb,
     pb |-> engine.pb,
     rotors |-> [i \in 1..Len(engine.rotors) |-> store[engine.rotors[i]]],
     reflector |-> store[engine.reflector]]

\* Inop.set_rings from rotor k on: for rotor, ring in zip(self.rotors, rings)
RECURSIVE SetRingsRef(_, _, _, _)
SetRingsRef(store, slots, rings, k) ==
    IF k > Len(slots) \/ k > Len(rings)
    THEN store
    ELSE SetRingsRef([store EXCEPT ![slots[k]] = SetRing(@, rings[k])], slots, rings, k + 1)

\* Inop.set_key from rotor k on: the store when the loop ends, and the
\* error if alphabet.index raised on the way
RECURSIVE SetKeyRef(_, _, _, _)
SetKeyRef(store, slots, key_part, k) ==
    IF k > Len(slots) \/ k > Len(key_part)
    THEN [store |-> store, ret |-> None]
    ELSE IF ~In(key_part[k], store[slots[k]].alphabet)
    THEN [store |-> store, ret |-> ValueError("substring not found")]
    ELSE SetKeyRef([store EXCEPT ![slots[k]].position =
                                     Index(store[slots[k]].alphabet, key_part[k])],
                   slots, key_part, k + 1)

\* reflector.rotate_to_letter(L) on the store
RotateToLetterRef(store, id, L) ==
    LET f == RotateToLetter(store[id], L)
    IN  IF IsError(f)
        THEN [store |-> store, ret |-> f]
        ELSE [store |-> [store EXCEPT ![id] = f], ret |-> None]

\* set_key(master_key[:-1]) and rotate_to_letter(master_key[-1]), as
\* Inop.__init__ and MachineContext.rewind both run them
KeyToRef(store, slots, reflector, master_key) ==
    LET keyed == SetKeyRef(store, slots, KeyPart(master_key), 1)
    IN  IF IsError(keyed.ret)
        THEN keyed
        ELSE RotateToLetterRef(keyed.store, reflector, KeyLast(master_key))

\* an Inop.__init__ that sets the rings before it compares the lengths
InopRingsFirstRef(store, kb, pb, slots, reflector, ring_settings, master_key) ==
    LET ringed == SetRingsRef(store, slots, ring_settings, 1)
    IN  IF Len(ring_settings) # Len(slots)
        THEN [store |-> ringed, ret |-> ValueError("Incorrect ring settings length")]
        ELSE IF Len(master_key) # Len(slots) + 1
        THEN [store |-> ringed, ret |-> ValueError("Incorrect master key length")]
        ELSE LET keyed == KeyToRef(ringed, slots, reflector, master_key)
             IN  [store |-> keyed.store,
                  ret |-> IF IsError(keyed.ret)
                          THEN keyed.ret
                          ELSE [kind |-> "Inop", kb |-> kb, pb |-> pb,
                                rotors |-> slots, reflector |-> reflector]]

\* Inop.__init__ on wheels given by name: the store after the call, and the
\* engine or the error raised
InopRef(store, kb, pb, slots, reflector, ring_settings, master_key) ==
    IF Len(ring_settings) # Len(slots)
    THEN [store |-> store, ret |-> ValueError("Incorrect ring settings length")]
    ELSE IF Len(master_key) # Len(slots) + 1
    THEN [store |-> store, ret |-> ValueError("Incorrect master key length")]
    ELSE LET ringed == SetRingsRef(store, slots, ring_settings, 1)
             keyed == KeyToRef(ringed, slots, reflector, master_key)
         IN  [store |-> keyed.store,
              ret |-> IF IsError(keyed.ret)
                      THEN keyed.ret
                      ELSE [kind |-> "Inop", kb |-> kb, pb |-> pb,
                            rotors |-> slots, reflector |-> reflector]]

\* the name of the wheel catalogued under a label, and of a copy made of it
Named(label) == <<"rotor_dict", label, 0>>
PoolCopy(label) == <<"pool", label, 0>>
Copy(label, n) == <<"copy", label, n>>

\* rotor.step() on the store
StepRef(store, id) == [store EXCEPT ![id] = Step(@).rotor]

\* Inop._step_rotors with three rotors, on the store: the notch tests are
\* read from the store before any step, the steps are made one after another
StepHistoricRef(store, slots) ==
    LET left == slots[1]
        middle == slots[2]
        right == slots[3]
        moved == IF At(store[left].alphabet, store[middle].position) \in store[middle].notches
                 THEN StepRef(StepRef(store, left), middle)
                 ELSE IF At(store[left].alphabet, store[right].position) \in store[right].notches
                 THEN StepRef(store, middle)
                 ELSE store
    IN  StepRef(moved, right)

\* the cascade on the store, at rotor i counted from the left
RECURSIVE CascadeRef(_, _, _, _)
CascadeRef(store, slots, i, carry) ==
    IF i = 0 \/ ~carry
    THEN store
    ELSE CHOOSE done \in
             {CascadeRef(stepped, slots, i - 1, NotchHit(stepped[slots[i]])) :
                 stepped \in {StepRef(store, slots[i])}} : TRUE

\* Inop._step_rotors on the store
StepRotorsRef(store, slots) ==
    IF Len(slots) = 3
    THEN StepHistoricRef(store, slots)
    ELSE CascadeRef(store, slots, Len(slots), TRUE)

\* Inop.encypher on the store: the store after the call and what it returned
EncypherRef(store, engine, letter) ==
    CHOOSE done \in
        {[store |-> stepped, ret |-> SignalPath(Deref(stepped, engine), letter)] :
            stepped \in {StepRotorsRef(store, engine.rotors)}} : TRUE

\* the MachineContext around an engine built on the store
ContextRef(alphabet, cfg, built) ==
    [store |-> built.store,
     ret |-> IF IsError(built.ret)
             THEN built.ret
             ELSE [kind |-> "MachineContext",
                   alphabet |-> alphabet,
                   rotor_names |-> cfg.rotors,
                   plugs |-> cfg.plugs,
                   ring_set |-> cfg.ring_set,
                   notch_map |-> cfg.notch_map,
                   master_key |-> cfg.master_key,
                   machine |-> built.ret]]

\* MachineContext.from_config on the store: every slot gets a deep copy of
\* the catalog's wheel, named by the session number n and the slot
FromConfigRef(store, cfg, n) ==
    LET labels == cfg.rotors
        slots == [i \in 1..Len(labels) |-> Copy(labels[i], 10 * n + i)]
        refl == Copy(cfg.reflector, 10 * n)
        alphabet == store[Named(labels[1])].alphabet
        copied == [id \in SetOf(slots) \cup {refl} |->
                      IF id = refl
                      THEN store[Named(cfg.reflector)]
                      ELSE SetNotches(store[Named(id[2])], NotchGet(cfg.notch_map, id[2]))]
        pb == Plugboard(cfg.plugs, alphabet)
    IN  IF \E id \in SetOf(slots) : IsError(copied[id])
        THEN [store |-> store, ret |-> ValueError("Notch characters must be in the alphabet")]
        ELSE IF IsError(pb)
        THEN [store |-> store, ret |-> pb]
        ELSE ContextRef(alphabet, cfg,
                        InopRef(copied @@ store, Keyboard(alphabet), pb, slots, refl,
                                cfg.ring_set, cfg.master_key))

\* MachineContext.__init__ on the store: the notch overrides are written to
\* the pool's rotors, the slots name the pool's rotors, and the reflector is
\* the pool's object, which get_reflector_selection returned.  The settings
\* come checked from the prompts, so set_notches does not raise.
MachineContextRef(store, alphabet, settings) ==
    LET overridden == [id \in DOMAIN store |->
                          IF id[1] = "pool" /\ id[2] \in DOMAIN settings.notch_map
                          THEN SetNotches(store[id], settings.notch_map[id[2]])
                          ELSE store[id]]
        slots == [i \in 1..Len(settings.rotors) |-> PoolCopy(settings.rotors[i])]
        pb == Plugboard(settings.plugs, alphabet)
    IN  IF IsError(pb)
        THEN [store |-> overridden, ret |-> pb]
        ELSE ContextRef(alphabet, settings,
                        InopRef(overridden, Keyboard(alphabet), pb, slots,
                                PoolCopy(settings.reflector),
                                settings.ring_set, settings.master_key))

(***************************************************************************)
(* Engine construction on its own: Inop.__init__ given wheels, ring        *)
(* settings and master keys of any length.                                 *)
(***************************************************************************)

\* positions the supplied rotors may have been left at by earlier use
UsedPositions == {0, 2}

\* ring settings offered: the first k of 2 3 4 1 2 ..
RingChoices == {[i \in 1..k |-> (i % Len(Alpha4)) + 1] : k \in 0..MaxKeyLen}

\* master keys offered: symbols of the alphabet and a foreign one
KeyChoices == UNION {[1..k -> {"B", "D", Foreign}] : k \in 0..MaxKeyLen}

InitBuild ==
    /\ \E order \in {<<"L1">>, <<"L1", "L2">>, <<"L3", "L1", "L2">>} :
          \E used \in [SetOf(order) -> UsedPositions] :
              ctx = [kind |-> "Parts",
                     store |-> [id \in {Named(l) : l \in SetOf(order)} \cup {Named("LA")} |->
                                  IF id[2] = "LA"
                                  THEN custom_reflectors.LA
                                  ELSE [custom_rotors[id[2]] EXCEPT !.position = used[id[2]]]],
                     rotors |-> [i \in 1..Len(order) |-> Named(order[i])],
                     reflector |-> Named("LA")]
    /\ call = [op |-> "init", arg |-> 0, ret |-> None]
    /\ trail = <<>>
    /\ wheel = NoWheel
    /\ pipe = NoPipe

\* Inop(kb, pb, rotors, reflector, ring_settings, master_key)
Build(ring_settings, master_key) ==
    /\ ctx.kind = "Parts"
    /\ \E r \in {InopRef(ctx.store, Keyboard(Alpha4), Plugboard(<<>>, Alpha4),
                         ctx.rotors, ctx.reflector, ring_settings, master_key)} :
          /\ ctx' = [ctx EXCEPT !.kind = "Built", !.store = r.store]
          /\ call' = [op |-> "Inop",
                      arg |-> [ring_settings |-> ring_settings, master_key |-> master_key],
                      ret |-> r.ret]
    /\ UNCHANGED <<trail, wheel, pipe>>

NextBuild ==
    \E ring_settings \in RingChoices, master_key \in KeyChoices :
        Build(ring_settings, master_key)

SpecBuild == InitBuild /\ [][NextBuild]_vars

\* the lengths Inop.__init__ compares do not fit the rotor count
LengthMismatch(arg, n) ==
    Len(arg.ring_settings) # n \/ Len(arg.master_key) # n + 1

\* C15: construction with a ring-settings or master-key length that does
\* not fit the rotor count raises the length error and leaves every supplied
\* wheel as it was; a constructed engine has one ring setting per rotor and
\* a master key of rotor count + 1 symbols
C15_LengthChecked ==
    [][call'.op = "Inop" =>
        /\ LengthMismatch(call'.arg, Len(ctx.rotors)) =>
              /\ IsError(call'.ret)
              /\ call'.ret.msg \in {"Incorrect ring settings length",
                                     "Incorrect master key length"}
              /\ ctx'.store = ctx.store
        /\ ~IsError(call'.ret) => ~LengthMismatch(call'.arg, Len(ctx.rotors))]_vars

\* a three-rotor stack, one rotor of it used before, was given three ring
\* settings and a three-symbol key: the call raised and the used rotor still
\* stands where it stood, its ring offset untouched
C15_Witness ==
    /\ call.op = "Inop"
    /\ Len(ctx.rotors) = 3
    /\ Len(call.arg.ring_settings) = 3
    /\ Len(call.arg.master_key) = 3
    /\ IsError(call.ret)
    /\ ctx.store[ctx.rotors[1]].position = 2
    /\ ctx.store[ctx.rotors[1]].ring_setting = 0

(***************************************************************************)
(* Two sessions side by side, built from one catalog and one pool, with    *)
(* their operations interleaved.                                           *)
(***************************************************************************)
\* the settings the two sessions are built from; the second selects one
\* rotor twice, which get_rotor_selection lets through
SharedSettings ==
    {[suite |-> "custom", rotors |-> <<"L1", "L2">>, reflector |-> "LA",
      ring_set |-> <<1, 2>>, notch_map |-> [L1 |-> <<"B">>, L2 |-> <<"A", "C">>],
      plugs |-> <<>>, master_key |-> <<"A", "B", "C">>],
     [suite |-> "custom", rotors |-> <<"L2", "L2", "L1">>, reflector |-> "LA",
      ring_set |-> <<1, 1, 1>>, notch_map |-> [L1 |-> <<"B">>, L2 |-> <<"B">>],
      plugs |-> << <<"A", "C">> >>, master_key |-> <<"A", "B", "C", "D">>]}

\* the catalog's wheels and the pool load_suite copies from them
SharedLabels == {"L1", "L2", "LA"}
Catalog == {Named(l) : l \in SharedLabels}

InitShared ==
    /\ ctx = [kind |-> "Sessions",
              store |-> [id \in Catalog \cup {PoolCopy(l) : l \in SharedLabels} |->
                           IF id[2] = "LA" THEN custom_reflectors.LA ELSE custom_rotors[id[2]]],
              sessions |-> <<>>,
              ops |-> 0]
    /\ call = [op |-> "init", session |-> 0, arg |-> "", ret |-> None]
    /\ trail = <<>>
    /\ wheel = NoWheel
    /\ pipe = NoPipe

\* a session is added
Opened(built, op) ==
    /\ ~IsError(built.ret)
    /\ ctx' = [ctx EXCEPT !.store = built.store,
                          !.sessions = Append(@, built.ret)]
    /\ call' = [op |-> op, session |-> Len(ctx.sessions) + 1, arg |-> "", ret |-> None]
    /\ UNCHANGED <<trail, wheel, pipe>>

\* MachineContext.from_config(cfg)
OpenFromConfig(cfg) ==
    /\ Len(ctx.sessions) < 2
    /\ \E built \in {FromConfigRef(ctx.store, cfg, Len(ctx.sessions) + 1)} :
          Opened(built, "from_config")

\* MachineContext(alphabet, rotor_pool, reflector_pool), the operator
\* answering the prompts with the settings
OpenInteractive(settings) ==
    /\ Len(ctx.sessions) < 2
    /\ \E built \in {MachineContextRef(ctx.store, Alpha4, settings)} :
          Opened(built, "MachineContext")

\* sessions[k].machine.encypher(letter)
PressOn(k, letter) ==
    /\ ctx.ops < MaxSharedOps
    /\ \E r \in {EncypherRef(ctx.store, ctx.sessions[k].machine, letter)} :
          /\ ctx' = [ctx EXCEPT !.store = r.store, !.ops = @ + 1]
          /\ call' = [op |-> "encypher", session |-> k, arg |-> letter, ret |-> r.ret]
    /\ UNCHANGED <<trail, wheel, pipe>>

\* sessions[k].rewind()
RewindOn(k) ==
    /\ ctx.ops < MaxSharedOps
    /\ \E r \in {KeyToRef(ctx.store, ctx.sessions[k].machine.rotors,
                          ctx.sessions[k].machine.reflector,
                          ctx.sessions[k].master_key)} :
          /\ ctx' = [ctx EXCEPT !.store = r.store, !.ops = @ + 1]
          /\ call' = [op |-> "rewind", session |-> k, arg |-> "", ret |-> r.ret]
    /\ UNCHANGED <<trail, wheel, pipe>>

\* sessions[k].machine.rotors[i].set_notches(notches)
OverrideOn(k, i, notches) ==
    /\ ctx.ops < MaxSharedOps
    /\ i <= Len(ctx.sessions[k].machine.rotors)
    /\ ctx' = [ctx EXCEPT !.store[ctx.sessions[k].machine.rotors[i]] = SetNotches(@, notches),
                          !.ops = @ + 1]
    /\ call' = [op |-> "set_notches", session |-> k, arg |-> notches, ret |-> None]
    /\ UNCHANGED <<trail, wheel, pipe>>

NextShared ==
    \/ \E cfg \in SharedSettings : OpenFromConfig(cfg)
    \/ \E settings \in SharedSettings : OpenInteractive(settings)
    \/ \E k \in 1..Len(ctx.sessions), letter \in {"A", "C"} : PressOn(k, letter)
    \/ \E k \in 1..Len(ctx.sessions) : RewindOn(k)
    \/ \E k \in 1..Len(ctx.sessions), i \in 1..3, notches \in {<<>>, <<"A", "C">>} :
          OverrideOn(k, i, notches)

SpecShared == InitShared /\ [][NextShared]_vars

\* what of session k's wheels can change: per slot the position, ring
\* offset and notch set, and the reflector's position
Mutable(c, k) ==
    LET machine == Deref(c.store, c.sessions[k].machine)
    IN  [rotors |-> [i \in 1..Len(machine.rotors) |->
                        <<machine.rotors[i].position, machine.rotors[i].ring_setting,
                          machine.rotors[i].notches>>],
         reflector |-> machine.reflector.position]

\* the catalog's definitions
Definitions(c) == [id \in Catalog |-> c.store[id]]

\* every rotor slot of session k names an object of its own
OwnInstances(c, k) ==
    LET slots == c.sessions[k].machine.rotors
    IN  \A i, j \in 1..Len(slots) : i # j => slots[i] # slots[j]

\* C14 as stated: no step made on one session (its construction included)
\* changes a position, ring offset, notch set or reflector position of the
\* other session or a catalog definition, and in every engine each rotor
\* slot is an instance of its own
C14_NoSharedState ==
    [][/\ \A k \in 1..Len(ctx.sessions) :
             call'.session # k => Mutable(ctx', k) = Mutable(ctx, k)
       /\ Definitions(ctx') = Definitions(ctx)
       /\ \A k \in 1..Len(ctx'.sessions) : OwnInstances(ctx', k)]_vars

\* C24 as stated: after a rewind every rotor of the session stands at the
\* alphabet index of its master-key letter and the reflector at the index of
\* the last master-key letter
C24_RewindToKey ==
    call.op = "rewind" =>
        LET session == ctx.sessions[call.session]
            slots == session.machine.rotors
        IN  /\ \A i \in 1..Len(slots) :
                  ctx.store[slots[i]].position = Index(session.alphabet, session.master_key[i])
            /\ ctx.store[session.machine.reflector].position =
                  Index(session.alphabet, KeyLast(session.master_key))

(***************************************************************************)
(* Saved configurations loaded by the two builders.                        *)
(***************************************************************************)
\* the notch strings a configuration's notch_map gives the legacy rotors
NotchFor == [I |-> <<"A">>, II |-> <<"B", "C">>, III |-> <<>>]

\* the keys of a notch_map in the order of the file: any rotor names, each
\* at most once
KeyOrders ==
    {keys \in UNION {[1..k -> DOMAIN NotchFor] : k \in 0..3} :
        \A i, j \in 1..Len(keys) : i # j => keys[i] # keys[j]}

\* legacy configurations with a notch_map for all, some or none of the rotors
LoadableConfigs ==
    {[suite |-> "Legacy",
      rotors |-> order,
      reflector |-> "B",
      ring_set |-> [i \in 1..Len(order) |-> 1],
      notch_keys |-> keys,
      notch_map |-> [l \in SetOf(keys) |-> NotchFor[l]],
      plugs |-> <<>>,
      master_key |-> [i \in 1..(Len(order) + 1) |-> "A"]] :
        order \in {<<"I", "II", "III">>, <<"II", "III", "I">>, <<"III", "I">>, <<"II">>},
        keys \in KeyOrders}

InitConfig ==
    /\ ctx = NoContext
    /\ call = [op |-> "init", arg |-> "", ret |-> None]
    /\ trail = <<>>
    /\ wheel = NoWheel
    /\ pipe = NoPipe

\* MachineContext.from_config(cfg).machine
LoadFromConfig(cfg) ==
    /\ \E c \in {FromConfig(cfg)} :
          ctx' = [kind |-> "Loaded", cfg |-> cfg,
                  machine |-> IF IsError(c) THEN c ELSE c.machine]
    /\ call' = [op |-> "from_config", arg |-> "", ret |-> None]
    /\ UNCHANGED <<trail, wheel, pipe>>

\* build_from_cfg(cfg)
LoadBuildFromCfg(cfg) ==
    /\ ctx' = [kind |-> "Loaded", cfg |-> cfg, machine |-> BuildFromCfg(cfg)]
    /\ call' = [op |-> "build_from_cfg", arg |-> "", ret |-> None]
    /\ UNCHANGED <<trail, wheel, pipe>>

NextConfig ==
    \/ \E cfg \in LoadableConfigs : LoadFromConfig(cfg)
    \/ \E cfg \in LoadableConfigs : LoadBuildFromCfg(cfg)

SpecConfig == InitConfig /\ [][NextConfig]_vars

\* C27 as stated: the machine either builder returns gives each rotor the
\* notch set notch_map names for it, and a rotor without an entry the notch
\* set of its catalog definition
C27_NotchSets ==
    ctx.kind = "Loaded" =>
        /\ ~IsError(ctx.machine)
        /\ \A i \in 1..Len(ctx.cfg.rotors) :
              ctx.machine.rotors[i].notches =
                  IF ctx.cfg.rotors[i] \in DOMAIN ctx.cfg.notch_map
                  THEN SetOf(ctx.cfg.notch_map[ctx.cfg.rotors[i]])
                  ELSE rotor_dict[ctx.cfg.rotors[i]].notches

(***************************************************************************)
(* One engine driven call by call: ring settings, keys, single rotor       *)
(* steps, rewinds and keypresses on an engine built from a configuration.  *)
(***************************************************************************)
\* the catalog of custom wheels as a store of objects
CatalogStore ==
    [id \in {Named(l) : l \in DOMAIN custom_rotors \cup DOMAIN custom_reflectors} |->
        IF id[2] \in DOMAIN custom_rotors
        THEN custom_rotors[id[2]]
        ELSE custom_reflectors[id[2]]]

\* ring settings as an operator may type them: in 1..size, and below and
\* above it, which set_ring wraps
RingLists == {<<1, 1, 1>>, <<0, -2, 5>>, <<4, 9, 2>>}

\* keys set_key may be given: the second has a symbol of no alphabet
KeyParts == {<<"D", "D", "D">>, <<"C", Foreign, "B">>}

\* configurations of one, two and three rotors, plain and with rings,
\* notches, plugs and a turned reflector
EngineConfigs ==
    {[suite |-> "custom",
      rotors |-> order,
      reflector |-> v.reflector,
      ring_set |-> SubSeq(v.rings, 1, Len(order)),
      notch_map |-> [l \in SetOf(order) |-> v.notches],
      plugs |-> v.plugs,
      master_key |-> SubSeq(v.key, 1, Len(order) + 1)] :
        order \in {<<"L1">>, <<"L1", "L2">>, <<"L3", "L1", "L2">>},
        v \in {[reflector |-> "LA", rings |-> <<1, 1, 1>>, notches |-> <<"B">>,
                plugs |-> <<>>, key |-> <<"A", "A", "A", "A">>],
               [reflector |-> "LB", rings |-> <<0, -2, 5>>, notches |-> <<"A", "C">>,
                plugs |-> << <<"A", "C">> >>, key |-> <<"B", "D", "C", "D">>]}}

\* the rotor positions of the session's engine, read from the store
PositionsRef(c) ==
    [i \in 1..Len(c.session.machine.rotors) |->
        c.store[c.session.machine.rotors[i]].position]

InitEngine ==
    /\ \E cfg \in EngineConfigs :
          \E built \in {FromConfigRef(CatalogStore, cfg, 1)} :
              ctx = [kind |-> "Session", store |-> built.store, session |-> built.ret]
    /\ call = [op |-> "from_config", arg |-> "", ret |-> None]
    /\ trail = <<PositionsRef(ctx)>>
    /\ wheel = NoWheel
    /\ pipe = NoPipe

\* the call made on the session's engine left the store as given
Called(op, arg, store, ret) ==
    /\ ctx' = [ctx EXCEPT !.store = store]
    /\ call' = [op |-> op, arg |-> arg, ret |-> ret]
    /\ trail' = <<PositionsRef(ctx)>>
    /\ UNCHANGED <<wheel, pipe>>

\* machine.set_rings(rings)
EngineSetRings(rings) ==
    \E ringed \in {SetRingsRef(ctx.store, ctx.session.machine.rotors, rings, 1)} :
        Called("set_rings", rings, ringed, None)

\* machine.set_key(key_part)
EngineSetKey(key_part) ==
    \E r \in {SetKeyRef(ctx.store, ctx.session.machine.rotors, key_part, 1)} :
        Called("set_key", key_part, r.store, r.ret)

\* ctx.rewind()
EngineRewind ==
    \E r \in {KeyToRef(ctx.store, ctx.session.machine.rotors,
                       ctx.session.machine.reflector, ctx.session.master_key)} :
        Called("rewind", "", r.store, r.ret)

\* machine.rotors[i].step()
EngineStep(i) ==
    /\ i <= Len(ctx.session.machine.rotors)
    /\ \E stepped \in {StepRef(ctx.store, ctx.session.machine.rotors[i])} :
          Called("step", i, stepped,
                 Ok(NotchHit(stepped[ctx.session.machine.rotors[i]])))

\* machine.encypher(letter)
EnginePress(letter) ==
    \E r \in {EncypherRef(ctx.store, ctx.session.machine, letter)} :
        Called("encypher", letter, r.store, r.ret)

NextEngine ==
    \/ \E rings \in RingLists : EngineSetRings(rings)
    \/ \E key_part \in KeyParts : EngineSetKey(key_part)
    \/ EngineRewind
    \/ \E i \in 1..3 : EngineStep(i)
    \/ \E letter \in SetOf(ctx.session.alphabet) \cup {Foreign} : EnginePress(letter)

SpecEngine == InitEngine /\ [][NextEngine]_vars

\* C21: every rotor position, ring offset and the reflector position lie in
\* [0, size), every signal on the path of every alphabet symbol lies in
\* [0, size), and an encypher call given an alphabet symbol returned the
\* alphabet symbol at the last signal of its path
C21_InRange ==
    LET machine == Deref(ctx.store, ctx.session.machine)
        alphabet == ctx.session.alphabet
        range == 0..(Len(alphabet) - 1)
    IN  /\ \A i \in 1..Len(machine.rotors) :
              /\ machine.rotors[i].position \in range
              /\ machine.rotors[i].ring_setting \in range
        /\ machine.reflector.position \in range
        /\ \A x \in SetOf(alphabet) :
              \E trace \in {SignalTrace(machine, x)} :
                  /\ Len(trace) = 2 * Len(machine.rotors) + 4
                  /\ \A k \in 1..Len(trace) : trace[k] \in range
        /\ (call.op = "encypher" /\ In(call.arg, alphabet)) =>
              \E trace \in {SignalTrace(machine, call.arg)} :
                  /\ call.ret = Ok(At(alphabet, trace[Len(trace)]))
                  /\ In(call.ret.value, alphabet)

\* a keypress on three rotors whose rings were typed as 0 and -2, so that
\* set_ring wrapped them, and whose right rotor wrapped from the last
\* position to 0 on this keypress
C21_Witness ==
    LET slots == ctx.session.machine.rotors
    IN  /\ call.op = "encypher"
        /\ call.ret.kind = "ok"
        /\ Len(slots) = 3
        /\ ctx.session.ring_set = <<0, -2, 5>>
        /\ ctx.store[slots[1]].ring_setting = 3
        /\ ctx.store[slots[2]].ring_setting = 1
        /\ trail[1][3] = 3
        /\ ctx.store[slots[3]].position = 0
        /\ ctx.store[ctx.session.machine.reflector].position # 0

(***************************************************************************)
(* Properties of the engine.                                               *)
(***************************************************************************)
\* the rotor positions before and after the last keypress
Before == trail[Len(trail) - 1]
After == trail[Len(trail)]

\* the session's rotor count and alphabet size
NRotors == Len(ctx.machine.rotors)
Plus1(p) == (p + 1) % Len(ctx.alphabet)

\* rotor i of the session shows one of its notch symbols at position p
OnNotch(i, p) == At(ctx.alphabet, p) \in ctx.machine.rotors[i].notches

\* the legacy engine of the reference vector, wherever its rotors stand
LegacyContext ==
    MachineContextInit(Alpha26, legacy_rotors, reflector_dict, LegacySettings)
IsLegacy == Rewind(ctx) = LegacyContext

\* keypress k since the rewind moved rotor i
Advanced(i, k) == trail[k + 1][i] # trail[k][i]

\* two consecutive keypresses among the first n both moved the middle rotor
DoubleStepWithin(n) ==
    \E k \in 1..(n - 1) : k + 1 <= Presses /\ Advanced(2, k) /\ Advanced(2, k + 1)

\* C3: rotors I II III, reflector B, rings 1 1 1, no plugs, started at AAAA:
\* the k-th keypress, typing A, returns the k-th symbol of BDZGO (the rotor
\* positions at keypress k do not depend on what was typed before)
C3_ReferenceVector ==
    (IsLegacy /\ call.op = "encypher" /\ call.arg = "A" /\ Presses \in 1..5)
        => call.ret = Ok(<<"B", "D", "Z", "G", "O">>[Presses])

C3_Witness ==
    /\ IsLegacy
    /\ Presses = 5
    /\ call.op = "encypher"
    /\ call.arg = "A"
    /\ call.ret = Ok("O")

\* C4 as stated: after 50 keypresses from (0,0,0) the legacy engine has shown
\* two consecutive keypresses that both move the middle rotor
C4_DoubleStepIn50 ==
    (IsLegacy /\ Presses = 50) => DoubleStepWithin(50)

\* C4 amended: it takes 101 keypresses from (0,0,0); keypresses 100 and 101
\* are the first consecutive pair that both move the middle rotor
C4_DoubleStepIn101 ==
    (IsLegacy /\ Presses = 101) => DoubleStepWithin(101)

C4_Witness ==
    /\ IsLegacy
    /\ Presses = 101
    /\ Advanced(2, 100)
    /\ Advanced(2, 101)
    /\ Advanced(1, 101)
    /\ ~DoubleStepWithin(100)

PathOf(m, letter) ==
    LET n == Len(m.rotors)
        F(i, x) == Forward(m.rotors[i], x)
        G(i, x) == Backward(m.rotors[i], x)
        plugged == PlugMap(m.pb, Index(m.kb.alphabet, letter))
        inward == CASE n = 1 -> F(1, plugged)
                    [] n = 2 -> F(1, F(2, plugged))
                    [] n = 3 -> F(1, F(2, F(3, plugged)))
                    [] n = 4 -> F(1, F(2, F(3, F(4, plugged))))
        turned == Reflect(m.reflector, inward)
        outward == CASE n = 1 -> G(1, turned)
                     [] n = 2 -> G(2, G(1, turned))
                     [] n = 3 -> G(3, G(2, G(1, turned)))
                     [] n = 4 -> G(4, G(3, G(2, G(1, turned))))
    IN  At(m.kb.alphabet, PlugMap(m.pb, outward))

\* the session's rotors put back to the positions before the last keypress
RotorsBefore ==
    [i \in 1..NRotors |-> [ctx.machine.rotors[i] EXCEPT !.position = Before[i]]]

\* C9: an encypher call steps once, then returns the symbol the signal path
\* gives at the positions after the step
C9_StepThenPath ==
    (call.op = "encypher" /\ In(call.arg, ctx.alphabet)) =>
        /\ ctx.machine.rotors = StepRotors(RotorsBefore)
        /\ call.ret = Ok(PathOf(ctx.machine, call.arg))

C9_Witness ==
    /\ call.op = "encypher"
    /\ In(call.arg, ctx.alphabet)
    /\ NRotors = 4
    /\ ctx.plugs # <<>>
    /\ ctx.ring_set[1] = 2
    /\ Presses >= 2
    /\ call.ret = Ok(PathOf(ctx.machine, call.arg))
    /\ After # Before

\* a machine with its rotor positions blanked: everything an encypher call
\* must leave alone
Frozen(machine) ==
    [machine EXCEPT !.rotors =
        [i \in 1..Len(machine.rotors) |-> [machine.rotors[i] EXCEPT !.position = 0]]]

BeforeThat == trail[Len(trail) - 2]

\* C23: with three rotors, when a keypress found the right rotor on one of
\* its notch symbols and moved the middle rotor onto one of the middle
\* rotor's notch symbols, the next keypress moves the middle rotor again and
\* moves the left rotor
C23_DoubleStep ==
    (/\ NRotors = 3
     /\ Presses >= 2
     /\ OnNotch(3, BeforeThat[3])
     /\ Before[2] # BeforeThat[2]
     /\ OnNotch(2, Before[2])) =>
        /\ After[2] = Plus1(Before[2])
        /\ After[1] = Plus1(Before[1])

\* two such keypresses, the right rotor off its notch at the second one
C23_Witness ==
    /\ NRotors = 3
    /\ Presses >= 2
    /\ OnNotch(3, BeforeThat[3])
    /\ ~OnNotch(2, BeforeThat[2])
    /\ Before[2] = Plus1(BeforeThat[2])
    /\ OnNotch(2, Before[2])
    /\ ~OnNotch(3, Before[3])
    /\ After[2] = Plus1(Before[2])
    /\ After[1] = Plus1(Before[1])

\* C28: from every state, enciphering any alphabet symbol x returns some
\* other symbol y, and enciphering y from the same state returns x
C28_Involution ==
    \A x \in SetOf(ctx.alphabet) :
        \E y \in {Encypher(ctx.machine, x).ret} :
            /\ y.kind = "ok"
            /\ y.value # x
            /\ Encypher(ctx.machine, y.value).ret = Ok(x)

\* a keypress on four rotors with ring offsets, plugs and a turned
\* reflector: typing what it returned, from the state it was made in,
\* returns what was typed
C28_Witness ==
    /\ call.op = "encypher"
    /\ call.ret.kind = "ok"
    /\ NRotors = 4
    /\ Presses >= 2
    /\ ctx.plugs # <<>>
    /\ ctx.ring_set[1] = 2
    /\ ctx.machine.reflector.position # 0
    /\ call.ret.value # call.arg
    /\ Encypher([ctx.machine EXCEPT !.rotors = RotorsBefore], call.ret.value).ret
           = Ok(call.arg)

\* the machine after k calls of encypher that all type the first symbol of
\* the alphabet
RECURSIVE TypedFirst(_, _)
TypedFirst(machine, k) ==
    IF k = 0
    THEN machine
    ELSE Encypher(TypedFirst(machine, k - 1), machine.kb.alphabet[1]).machine

\* C29: whatever symbols the keypresses since the rewind typed, the rotors
\* and the reflector stand where as many keypresses of one and the same
\* symbol put them
C29_SameTrajectory ==
    \E same \in {TypedFirst(Rewind(ctx).machine, Presses)} :
        /\ Positions(ctx.machine) = Positions(same)
        /\ ctx.machine.reflector.position = same.reflector.position

\* three keypresses or more on three rotors, the last of them typing another
\* symbol than the first of the alphabet and moving the middle rotor
C29_Witness ==
    /\ call.op = "encypher"
    /\ In(call.arg, ctx.alphabet)
    /\ call.arg # ctx.alphabet[1]
    /\ NRotors = 3
    /\ Presses >= 3
    /\ After[2] # Before[2]
    /\ Positions(ctx.machine) = Positions(TypedFirst(Rewind(ctx).machine, Presses))

\* C30: an encypher call given a symbol outside the alphabet raises the
\* keyboard's error and returns no symbol, and the rotors stand where a call
\* given an alphabet symbol puts them from the same positions
C30_StepsThenFails ==
    (call.op = "encypher" /\ ~In(call.arg, ctx.alphabet)) =>
        /\ call.ret = ValueError("Invalid character for current alphabet.")
        /\ ctx.machine.rotors = StepRotors(RotorsBefore)
        /\ \A x \in SetOf(ctx.alphabet) :
              \E good \in {Encypher([ctx.machine EXCEPT !.rotors = RotorsBefore], x)} :
                  /\ good.ret.kind = "ok"
                  /\ good.machine = ctx.machine

\* a failed call on three rotors that moved the middle rotor
C30_Witness ==
    /\ call.op = "encypher"
    /\ call.arg = Foreign
    /\ IsError(call.ret)
    /\ NRotors = 3
    /\ Presses >= 2
    /\ After[2] = Plus1(Before[2])
    /\ After[3] = Plus1(Before[3])

====
